---- MODULE Spec2Model ----
(***************************************************************************)
(* Seed-growth inversion engine of fatiando.potential.harvester: the grid  *)
(* neighbour search (find_neighbors), the data module (DMPrism), the       *)
(* acceptance policies (standard_jury, SeedPrism._standard_judge) and the  *)
(* two growth loops (grow, harvest/_harvest_solver).                       *)
(*                                                                         *)
(* Numbers.  Misfits are floats in the program; here a misfit is an exact  *)
(* rational kept as an integer numerator over the common denominator       *)
(* MisfitDen (the product of the l1 norms of the observed vectors), so     *)
(* comparisons are exact.  Data modules use the l1 norm (norm=1, the       *)
(* default of DMPrismGz).  Property values of seeds are nonzero: the       *)
(* estimate uses 0 for "not set" (in_estimate).                            *)
(***************************************************************************)
EXTENDS Integers, Sequences, FiniteSets, TLC

VARIABLES
    shape,         \* mesh.shape = <<nz, ny, nx>>
    masked,        \* cells i with mesh[i] is None
    fnCall,        \* the last find_neighbors call: [n, full, result]
    seeds,         \* the seed list: sequence of [index, props]
    dms,           \* data modules: sequence of [prop_type, data, predicted, effect]
    driver,        \* which loop runs: "grow" or "harvest"
    estimate,      \* grow: estimate[p][cell]; harvest: result of _cat_estimate
    committed,     \* per seed, the cells it committed (origin first)
    neighborhood,  \* per seed, its frontier (sequence of cell indices)
    goal,          \* current goal value (numerator over MisfitDen)
    misfit,        \* _harvest_solver: current misfit (numerator)
    goals,         \* history of goal values, one per changeset
    misfits,       \* history of misfit values
    iteration,     \* pass counter
    pos,           \* index in seeds of the seed whose turn it is
    onegrew,       \* did a seed grow in this pass
    pc,            \* "pass", "done"; "grid" and "dm" in the function specs
    dmLog,         \* DMPrism calls since the last update: sequence of [op, elem, ret]
    stalled,       \* the seeds a jury has answered None for, so far in the run
    reg,           \* the ConcentrationRegularizer: [reg, dists]
    call           \* the last call of sow, sow_prisms, harvest, DMPrism or a jury

vars == <<shape, masked, fnCall, seeds, dms, driver, estimate, committed,
          neighborhood, goal, misfit, goals, misfits, iteration, pos, onegrew,
          pc, dmLog, stalled, reg, call>>

-----------------------------------------------------------------------------
(* Bounds of the model *)

\* largest grid dimension explored by the find_neighbors specification
MaxDim == 3
\* largest number of masked cells explored by the find_neighbors specification
MaxMasked == 1
\* largest number of seeds of a run
MaxSeeds == 2
\* meshes of more cells than this run with a single seed
SmallMesh == 4
\* largest number of cells of the body the observed data come from
MaxBody == 5
\* largest ratio of the property value of that body to the property value of a seed
MaxAmp == 2

-----------------------------------------------------------------------------
(* Helpers on sequences and sets *)

Abs(x) == IF x < 0 THEN -x ELSE x

Range(s) == {s[i] : i \in DOMAIN s}

\* a sequence given by a function, as an explicit tuple
Tuple(f) == f \o <<>>

RECURSIVE SumTo(_, _)
SumTo(s, n) == IF n = 0 THEN 0 ELSE s[n] + SumTo(s, n - 1)

SumSeq(s) == SumTo(Tuple(s), Len(s))

NoDuplicates(s) == \A a, b \in DOMAIN s : a # b => s[a] # s[b]

-----------------------------------------------------------------------------
(* The mesh: a regular grid, cells numbered s = i + j*nx + k*nx*ny *)

Nz(shp) == shp[1]
Ny(shp) == shp[2]
Nx(shp) == shp[3]

\* mesh.size
MeshSize(shp) == Nz(shp) * Ny(shp) * Nx(shp)

Cells(shp) == 0 .. (MeshSize(shp) - 1)

\* grid coordinates of a cell (sow: s = i + j*nx + k*nx*ny)
CoordI(s, shp) == s % Nx(shp)
CoordJ(s, shp) == (s \div Nx(shp)) % Ny(shp)
CoordK(s, shp) == s \div (Nx(shp) * Ny(shp))

\* mesh[i] is not None
Exists(i, msk) == i \notin msk

-----------------------------------------------------------------------------
(* find_neighbors.  None is modelled by -1; up and down keep their         *)
(* default True, which every caller uses.                                  *)

None == -1

\* tmp = n - nx*ny; if up and tmp > 0: above = tmp
Above(n, shp) == IF n - Nx(shp) * Ny(shp) > 0 THEN n - Nx(shp) * Ny(shp) ELSE None

\* tmp = n + nx*ny; if down and tmp < mesh.size: bellow = tmp
Bellow(n, shp) == IF n + Nx(shp) * Ny(shp) < MeshSize(shp) THEN n + Nx(shp) * Ny(shp) ELSE None

\* a front neighbour taken without the test of the boundary
FrontUnchecked(n, shp) == n + 1

\* if n%nx < nx - 1: front = n + 1
Front(n, shp) == IF n % Nx(shp) < Nx(shp) - 1 THEN n + 1 ELSE None

\* if n%nx != 0: back = n - 1
Back(n, shp) == IF n % Nx(shp) # 0 THEN n - 1 ELSE None

\* if n%(nx*ny) < nx*(ny - 1): left = n + nx
Left(n, shp) == IF n % (Nx(shp) * Ny(shp)) < Nx(shp) * (Ny(shp) - 1) THEN n + Nx(shp) ELSE None

\* if n%(nx*ny) >= nx: right = n - nx
Right(n, shp) == IF n % (Nx(shp) * Ny(shp)) >= Nx(shp) THEN n - Nx(shp) ELSE None

\* the face neighbours with back listed before front
FaceIndexesBackFirst(n, shp) == <<Above(n, shp), Bellow(n, shp), Back(n, shp), Front(n, shp), Left(n, shp), Right(n, shp)>>

\* indexes = [above, bellow, front, back, left, right]
FaceIndexes(n, shp) == <<Above(n, shp), Bellow(n, shp), Front(n, shp), Back(n, shp), Left(n, shp), Right(n, shp)>>

\* one "if a is not None and b is not None [and c is not None]: append(v)"
Diag(conds, v) == IF \A c \in conds : c # None THEN <<v>> ELSE <<>>

\* the appends of the "if full:" block, in the order of the code
DiagIndexes(n, shp) ==
    LET nx     == Nx(shp)
        above  == Above(n, shp)
        bellow == Bellow(n, shp)
        front  == Front(n, shp)
        back   == Back(n, shp)
        left   == Left(n, shp)
        right  == Right(n, shp)
    IN  Diag({front, left}, left + 1) \o Diag({front, right}, right + 1)
        \o Diag({back, left}, left - 1) \o Diag({back, right}, right - 1)
        \o Diag({above, left}, above + nx) \o Diag({above, right}, above - nx)
        \o Diag({above, front}, above + 1) \o Diag({above, back}, above - 1)
        \o Diag({above, front, left}, above + nx + 1)
        \o Diag({above, front, right}, above - nx + 1)
        \o Diag({above, back, left}, above + nx - 1)
        \o Diag({above, back, right}, above - nx - 1)
        \o Diag({bellow, left}, bellow + nx) \o Diag({bellow, right}, bellow - nx)
        \o Diag({bellow, front}, bellow + 1) \o Diag({bellow, back}, bellow - 1)
        \o Diag({bellow, front, left}, bellow + nx + 1)
        \o Diag({bellow, front, right}, bellow - nx + 1)
        \o Diag({bellow, back, left}, bellow + nx - 1)
        \o Diag({bellow, back, right}, bellow - nx - 1)

\* find_neighbors(neighbor, mesh, full): the indices of the returned list,
\* in order; every returned neighbor carries the props of the argument
FindNeighbors(n, shp, msk, full) ==
    LET indexes == FaceIndexes(n, shp) \o (IF full THEN DiagIndexes(n, shp) ELSE <<>>)
        Kept(i) == i # None /\ Exists(i, msk)
    IN  SelectSeq(indexes, Kept)

-----------------------------------------------------------------------------
(* What the grid says the neighbours are, from the coordinates *)

\* number of axes along which a and b differ, and the largest difference
AxisDiffs(a, b, shp) == <<Abs(CoordI(a, shp) - CoordI(b, shp)), Abs(CoordJ(a, shp) - CoordJ(b, shp)), Abs(CoordK(a, shp) - CoordK(b, shp))>>

\* a and b differ by 1 along exactly one axis
FaceAdjacent(a, b, shp) == SumSeq(AxisDiffs(a, b, shp)) = 1

\* a and b differ by at most 1 on every axis, and are not the same cell
Adjacent26(a, b, shp) == a # b /\ \A x \in 1..3 : AxisDiffs(a, b, shp)[x] <= 1

-----------------------------------------------------------------------------
(* Vectors of data: one value per observation point.  The observation      *)
(* points lie above the mesh, one over each (i, j) column.                  *)

Points(shp) == 1 .. (Nx(shp) * Ny(shp))

ZeroVec(shp) == Tuple([q \in Points(shp) |-> 0])

VAdd(a, b) == Tuple([q \in DOMAIN a |-> a[q] + b[q]])

VSub(a, b) == Tuple([q \in DOMAIN a |-> a[q] - b[q]])

\* numpy.linalg.norm(v, 1)
Norm1(v) == SumSeq([q \in DOMAIN v |-> Abs(v[q])])

\* The forward model of a unit prism (the external _prism.gz): positive and
\* decaying with the squared distance between the cell and the point.
Kernel(c, q, shp) ==
    LET di == CoordI(c, shp) - ((q - 1) % Nx(shp))
        dj == CoordJ(c, shp) - ((q - 1) \div Nx(shp))
        dk == CoordK(c, shp) + 1
    IN  12 \div (di * di + dj * dj + dk * dk)

PropNames == {"density", "magnetization"}

\* DMPrismGz._effect_of_prism: the physical property times the unit effect
EffectOfPrism(propType, index, props, shp) == Tuple([q \in Points(shp) |-> props[propType] * Kernel(index, q, shp)])

-----------------------------------------------------------------------------
(* DMPrism.  A data module is [prop_type, data, predicted, effect]; effect *)
(* is the cache, a function from the cached cell indices to vectors.       *)
(* weight = 1/norm(data, 1): the misfit of a module is the numerator       *)
(* Misfit over the denominator Norm1(data).                                *)

\* DMPrism.misfit without the weight: numpy.linalg.norm(data - predicted, 1)
Misfit(dm, predicted) == Norm1(VSub(dm.data, predicted))

\* the effect testdrive and update use: the cached one if there is one
CachedEffect(dm, index, props, shp) == IF index \in DOMAIN dm.effect THEN dm.effect[index] ELSE EffectOfPrism(dm.prop_type, index, props, shp)

\* a testdrive that adds the effect to self.predicted in place
TestdriveInPlace(dm, index, props, shp) ==
    IF dm.prop_type \notin DOMAIN props
    THEN [dm |-> dm, ret |-> Misfit(dm, dm.predicted)]
    ELSE LET eff == CachedEffect(dm, index, props, shp)
             tmp == VAdd(dm.predicted, eff)
         IN  [dm |-> [dm EXCEPT !.effect = (index :> eff) @@ dm.effect, !.predicted = tmp],
              ret |-> Misfit(dm, tmp)]

\* a testdrive that also caches an effect for an element without the
\* property of the module
TestdriveCachingAll(dm, index, props, shp) ==
    IF dm.prop_type \notin DOMAIN props
    THEN [dm |-> [dm EXCEPT !.effect = (index :> ZeroVec(shp)) @@ dm.effect], ret |-> Misfit(dm, dm.predicted)]
    ELSE LET eff == CachedEffect(dm, index, props, shp)
             tmp == VAdd(dm.predicted, eff)
         IN  [dm |-> [dm EXCEPT !.effect = (index :> eff) @@ dm.effect],
              ret |-> Misfit(dm, tmp)]

\* DMPrism.testdrive: the module after the call (the cache may grow) and
\* the value returned
Testdrive(dm, index, props, shp) ==
    IF dm.prop_type \notin DOMAIN props
    THEN [dm |-> dm, ret |-> Misfit(dm, dm.predicted)]
    ELSE LET eff == CachedEffect(dm, index, props, shp)
             tmp == VAdd(dm.predicted, eff)
         IN  [dm |-> [dm EXCEPT !.effect = (index :> eff) @@ dm.effect],
              ret |-> Misfit(dm, tmp)]

\* an update that adds the effect of the element twice
UpdateTwice(dm, index, props, shp) ==
    IF dm.prop_type \notin DOMAIN props
    THEN dm
    ELSE LET eff == CachedEffect(dm, index, props, shp)
         IN  [dm EXCEPT !.predicted = VAdd(VAdd(dm.predicted, eff), eff),
                        !.effect = [i \in (DOMAIN dm.effect) \ {index} |-> dm.effect[i]]]

\* an update that leaves the effect of the element in the cache
UpdateKeepingEffect(dm, index, props, shp) ==
    IF dm.prop_type \notin DOMAIN props
    THEN dm
    ELSE LET eff == CachedEffect(dm, index, props, shp)
         IN  [dm EXCEPT !.predicted = VAdd(dm.predicted, eff),
                        !.effect = (index :> eff) @@ dm.effect]

\* DMPrism.update
Update(dm, index, props, shp) ==
    IF dm.prop_type \notin DOMAIN props
    THEN dm
    ELSE LET eff == CachedEffect(dm, index, props, shp)
         IN  [dm EXCEPT !.predicted = VAdd(dm.predicted, eff),
                        !.effect = [i \in (DOMAIN dm.effect) \ {index} |-> dm.effect[i]]]

\* dm.new_predicted(n, mesh) of the data modules grow is written for: the
\* predicted vector with the neighbor included, nothing changed
NewPredicted(dm, index, props, shp) == IF dm.prop_type \in DOMAIN props THEN VAdd(dm.predicted, EffectOfPrism(dm.prop_type, index, props, shp)) ELSE dm.predicted

\* the common denominator of the total misfit, without module k
RECURSIVE DenWithout(_, _)
DenWithout(dmseq, k) ==
    IF dmseq = <<>> THEN 1
    ELSE (IF k = 1 THEN 1 ELSE Norm1(Head(dmseq).data)) * DenWithout(Tail(dmseq), k - 1)

\* the product of the norms of the observed vectors
MisfitDen(dmseq) == DenWithout(dmseq, 0)

\* sum(dm.misfit(p) for dm, p in zip(datamods, pred)) as a numerator over
\* MisfitDen
TotalMisfit(dmseq, pred) == SumSeq([k \in DOMAIN dmseq |-> Misfit(dmseq[k], pred[k]) * DenWithout(dmseq, k)])

-----------------------------------------------------------------------------
(* Bookkeeping of grow: the estimate and the neighborhood.  A neighbor     *)
(* carries the props of the seed it descends from, so a frontier is kept   *)
(* as the sequence of its cell indices and its props are the seed's.       *)

\* an in_estimate that never finds the neighbor set
InEstimateNever(est, n, props) == FALSE

\* in_estimate
InEstimate(est, n, props) == \E p \in DOMAIN props : est[p][n] # 0

\* free_neighbors
FreeNeighbors(est, nbrs, props) ==
    LET Free(n) == ~InEstimate(est, n, props)
    IN  SelectSeq(nbrs, Free)

\* an in_tha_hood that never finds the neighbor in the neighborhood
InThaHoodNever(hood, sds, n, props) == FALSE

\* in_tha_hood: hood[k] is the frontier of seed k and has its props
InThaHood(hood, sds, n, props) ==
    \E k \in DOMAIN hood : \E t \in DOMAIN hood[k] :
        hood[k][t] = n /\ (\E p \in DOMAIN props : p \in DOMAIN sds[k].props)

\* a not_neighbors that removes nothing
NotNeighborsAll(hood, sds, nbrs, props) == nbrs

\* not_neighbors
NotNeighbors(hood, sds, nbrs, props) ==
    LET Fresh(n) == ~InThaHood(hood, sds, n, props)
    IN  SelectSeq(nbrs, Fresh)

\* an argmin that returns the last index of the smallest value
ArgMinLast(s) == CHOOSE i \in DOMAIN s : (\A j \in DOMAIN s : s[i] <= s[j]) /\ (\A j \in (i + 1) .. Len(s) : s[j] > s[i])

\* numpy.argmin: the first index of the smallest value
ArgMin(s) == CHOOSE i \in DOMAIN s : (\A j \in DOMAIN s : s[i] <= s[j]) /\ (\A j \in 1 .. (i - 1) : s[j] > s[i])

\* thresh=0.0001 of standard_jury and delta=0.0001 of SeedPrism, as 1/ThreshDen
ThreshDen == 10000

\* abs(m - misfit)/misfit >= thresh, for misfit > 0: abs(m - misfit)*ThreshDen
\* >= misfit, written without the product
RelativeChange(m, mis) == Abs(m - mis) >= (mis + ThreshDen - 1) \div ThreshDen

\* the jury's answer None
NoChoice == [j |-> 0, m |-> 0]

\* the misfit of each neighbor of a frontier: sum(dm.misfit(p) ...) over
\* pred[i] = [dm.new_predicted(n, mesh) for dm in datamods]
JuryMisfits(neighbors, props, dmseq, shp) ==
    Tuple([i \in DOMAIN neighbors |->
        TotalMisfit(dmseq, [k \in DOMAIN dmseq |-> NewPredicted(dmseq[k], neighbors[i], props, shp)])])

\* best = decreased[numpy.argmin(goals)] with goals = [m for i, m in
\* decreased]: (i, m) of the best neighbor, i counted from 1, or None when
\* decreased is empty
JuryBest(ms, decreased) ==
    IF decreased = <<>> THEN NoChoice
    ELSE [j |-> decreased[ArgMin(Tuple([d \in DOMAIN decreased |-> ms[decreased[d]]]))],
          m |-> ms[decreased[ArgMin(Tuple([d \in DOMAIN decreased |-> ms[decreased[d]]]))]]]

\* decreased = [(i, m) for i, m in misfits if m < misfit and
\* abs(m - misfit)/misfit >= thresh]: the indices i
Decreased(ms, mis) ==
    LET Passes(i) == ms[i] < mis /\ RelativeChange(ms[i], mis)
    IN  SelectSeq(Tuple([i \in DOMAIN ms |-> i]), Passes)

\* standard_jury with regularizer=None, given the misfits of the neighbors
JuryPick(ms, mis) == JuryBest(ms, Decreased(ms, mis))

\* standard_jury with regularizer=None
StandardJury(neighbors, props, dmseq, mis, shp) == JuryPick(JuryMisfits(neighbors, props, dmseq, shp), mis)

\* an update that leaves every data module as it is
UpdateAllNone(dmseq, index, props, shp) == dmseq

\* every data module updated with an element
UpdateAll(dmseq, index, props, shp) == Tuple([k \in DOMAIN dmseq |-> Update(dmseq[k], index, props, shp)])

\* data modules that the seeds do not reach
UpdateSeedsNone(dmseq, sds, shp) == dmseq

\* every data module updated with every seed
RECURSIVE UpdateSeeds(_, _, _)
UpdateSeeds(dmseq, sds, shp) ==
    IF sds = <<>> THEN dmseq
    ELSE UpdateSeeds(UpdateAll(dmseq, Head(sds).index, Head(sds).props, shp), Tail(sds), shp)

\* the names of the properties the seeds carry
SeedProps(sds) == UNION {DOMAIN sds[k].props : k \in DOMAIN sds}

\* grow, lines 500-509: the estimate with the seeds included
SeedEstimate(sds, shp) ==
    [p \in SeedProps(sds) |->
        [c \in Cells(shp) |->
            IF \E k \in DOMAIN sds : sds[k].index = c /\ p \in DOMAIN sds[k].props
            THEN LET last == CHOOSE k \in DOMAIN sds :
                                 /\ sds[k].index = c /\ p \in DOMAIN sds[k].props
                                 /\ \A l \in DOMAIN sds : (sds[l].index = c /\ p \in DOMAIN sds[l].props) => l <= k
                 IN  sds[last].props[p]
            ELSE 0]]

\* grow, lines 513-520: the frontiers of the first k seeds, built in seed order
RECURSIVE SeedNeighborhood(_, _, _, _, _)
SeedNeighborhood(k, sds, est, shp, msk) ==
    IF k = 0 THEN <<>>
    ELSE LET prev == SeedNeighborhood(k - 1, sds, est, shp, msk)
         IN  Append(prev, NotNeighbors(prev, sds,
                             FreeNeighbors(est, FindNeighbors(sds[k].index, shp, msk, FALSE), sds[k].props),
                             sds[k].props))

\* the committed set of a seed at the start: its origin, for each property
SeedCommitted(sds) == [k \in DOMAIN sds |-> [p \in DOMAIN sds[k].props |-> << <<sds[k].index, sds[k].props[p]>> >>]]

\* sequence s without its element j
Pop(s, j) == SubSeq(s, 1, j - 1) \o SubSeq(s, j + 1, Len(s))

\* the cells a seed committed
CommittedCells(k) == UNION {{e[1] : e \in Range(committed[k][p])} : p \in DOMAIN committed[k]}

\* the number of accepted accretions of seed k
Accreted(k) == Len(committed[k][CHOOSE p \in DOMAIN committed[k] : TRUE]) - 1

-----------------------------------------------------------------------------
(* The inputs of a run *)

\* the meshes of the growth specifications, as <<nz, ny, nx>>
GrowShapes == {<<1, 3, 3>>, <<2, 1, 2>>, <<1, 1, 3>>}

\* the meshes of the growth specifications have no masked cell
GrowMasks == {{}}

\* the props a seed may carry
PropChoices == {[p \in names |-> 1] : names \in (SUBSET PropNames) \ {{}}}

\* sow: no two seeds with the same location and a common physical property
NoDuplicateSeeds(sds) ==
    \A a, b \in DOMAIN sds :
        (a < b /\ sds[a].index = sds[b].index) => (DOMAIN sds[a].props) \cap (DOMAIN sds[b].props) = {}

\* the seed lists sow returns on a mesh: every seed in an unmasked cell
SeedLists(shp, msk) ==
    LET SeedSet == [index : Cells(shp) \ msk, props : PropChoices]
        maxn    == IF MeshSize(shp) <= SmallMesh THEN MaxSeeds ELSE 1
    IN  {sds \in UNION {[1 .. n -> SeedSet] : n \in 1 .. maxn} : NoDuplicateSeeds(sds)}

\* the observed data of a module: the effect of a body of amp times the
\* unit property value
ObservedData(body, amp, shp) == Tuple([q \in Points(shp) |-> amp * SumSeq([c \in 1 .. MeshSize(shp) |-> IF (c - 1) \in body THEN Kernel(c - 1, q, shp) ELSE 0])])

\* DMPrism.__init__: one module per property type of the body
NewModules(types, body, amp, shp) ==
    LET order == IF types = {"density"} THEN <<"density">> ELSE <<"density", "magnetization">>
    IN  [k \in DOMAIN order |->
            [prop_type |-> order[k], data |-> ObservedData(body, amp, shp),
             predicted |-> ZeroVec(shp), effect |-> <<>>]]

\* the bodies the observed data come from: a cell and some of the cells
\* that share a face with it
Bodies(shp) ==
    {b \in UNION {{{c} \cup nb : nb \in SUBSET {d \in Cells(shp) : FaceAdjacent(c, d, shp)}} : c \in Cells(shp)} :
        Cardinality(b) <= MaxBody}

InputInit ==
    /\ shape \in GrowShapes
    /\ masked \in GrowMasks
    /\ seeds \in SeedLists(shape, masked)
    /\ \E body \in Bodies(shape), amp \in 1 .. MaxAmp, types \in {{"density"}, PropNames} :
           dms = UpdateSeeds(NewModules(types, body, amp, shape), seeds, shape)
    /\ fnCall = <<>>
    /\ stalled = {}
    /\ reg = <<>>
    /\ call = <<>>
    /\ dmLog = <<>>
    /\ committed = SeedCommitted(seeds)
    /\ iteration = 0
    /\ pos = 1
    /\ onegrew = FALSE

-----------------------------------------------------------------------------
(* grow with the standard jury *)

\* the state at the first changeset of grow (lines 500-525)
Init ==
    /\ InputInit
    /\ driver = "grow"
    /\ estimate = SeedEstimate(seeds, shape)
    /\ neighborhood = SeedNeighborhood(Len(seeds), seeds, estimate, shape, masked)
    /\ goal = TotalMisfit(dms, [k \in DOMAIN dms |-> dms[k].predicted])
    /\ misfit = goal
    /\ goals = <<goal>>
    /\ misfits = <<goal>>
    /\ pc = IF MeshSize(shape) - Len(seeds) > 0 THEN "pass" ELSE "done"

\* a grow loop control that only stops when the passes are used up
EndTurnNoBreak(grew, passes) ==
    IF pos < Len(seeds)
    THEN /\ pos' = pos + 1
         /\ onegrew' = (onegrew \/ grew)
         /\ UNCHANGED <<iteration, pc>>
    ELSE /\ pos' = 1
         /\ onegrew' = FALSE
         /\ iteration' = iteration + 1
         /\ pc' = IF iteration + 1 < passes THEN "pass" ELSE "done"

\* the end of the turn of seed pos: the next seed, the next pass
\* (for iteration in xrange(mesh.size - nseeds)) or the end of the loop
EndTurn(grew, passes) ==
    IF pos < Len(seeds)
    THEN /\ pos' = pos + 1
         /\ onegrew' = (onegrew \/ grew)
         /\ UNCHANGED <<iteration, pc>>
    ELSE /\ pos' = 1
         /\ onegrew' = FALSE
         /\ iteration' = iteration + 1
         /\ pc' = IF (onegrew \/ grew) /\ (passes < 0 \/ iteration + 1 < passes) THEN "pass" ELSE "done"

\* an accretion that leaves the estimate as it is
IncludedNothing(est, best, props) == est

\* estimate[p][best['index']] = best['props'][p] for p in best['props']
Included(est, best, props) == [p \in DOMAIN est |-> IF p \in DOMAIN props THEN [est[p] EXCEPT ![best] = props[p]] ELSE est[p]]

\* frontiers extended with the 26 neighbours of best instead of the 6
ExtendedFull(popped, est, k, best) ==
    [popped EXCEPT ![k] = popped[k] \o NotNeighbors(popped, seeds,
        FreeNeighbors(est, FindNeighbors(best, shape, masked, TRUE), seeds[k].props), seeds[k].props)]

\* grow, lines 543-550: the frontiers after the accretion of best by seed k;
\* popped is the neighborhood after neighbors.pop(j)
Extended(popped, est, k, best) ==
    [popped EXCEPT ![k] = popped[k] \o NotNeighbors(popped, seeds,
        FreeNeighbors(est, FindNeighbors(best, shape, masked, FALSE), seeds[k].props), seeds[k].props)]

\* an accretion that leaves the committed sets as they are
RecordedNothing(k, best) == committed

\* the committed sets after the accretion of best by seed k
Recorded(k, best) == [committed EXCEPT ![k] = [p \in DOMAIN seeds[k].props |-> Append(committed[k][p], <<best, seeds[k].props[p]>>)]]

\* grow, lines 534-553: the accretion of neighbor j of seed pos
GrowAccept(j, m) ==
    /\ \E est \in {Included(estimate, neighborhood[pos][j], seeds[pos].props)} :
          /\ estimate' = est
          /\ neighborhood' = Extended([neighborhood EXCEPT ![pos] = Pop(neighborhood[pos], j)], est, pos, neighborhood[pos][j])
    /\ dms' = UpdateAll(dms, neighborhood[pos][j], seeds[pos].props, shape)
    /\ committed' = Recorded(pos, neighborhood[pos][j])
    /\ goal' = m
    /\ misfit' = m
    /\ goals' = Append(goals, m)
    /\ misfits' = Append(misfits, m)
    /\ EndTurn(TRUE, MeshSize(shape) - Len(seeds))

\* grow, lines 531-553: the turn of one seed
GrowTurn ==
    /\ pc = "pass"
    /\ driver = "grow"
    /\ \E chosen \in {StandardJury(neighborhood[pos], seeds[pos].props, dms, goal, shape)} :
          IF chosen = NoChoice
          THEN /\ UNCHANGED <<estimate, dms, neighborhood, committed, goal, misfit, goals, misfits>>
               /\ stalled' = stalled \cup {pos}
               /\ EndTurn(FALSE, MeshSize(shape) - Len(seeds))
          ELSE /\ GrowAccept(chosen.j, chosen.m)
               /\ UNCHANGED stalled
    /\ UNCHANGED <<shape, masked, seeds, driver, fnCall, dmLog, reg, call>>

Next == GrowTurn

Spec == Init /\ [][Next]_vars

-----------------------------------------------------------------------------
(* harvest and _harvest_solver with SeedPrism seeds.  The bodies of        *)
(* SeedPrism.initialize and SeedPrism._update_neighbors are not part of    *)
(* the source: they follow their docstrings and the seed state machine of  *)
(* the specification (a cell is in the frontier of at most one seed and is *)
(* left out once any seed committed it).  mu keeps its default 0, so the   *)
(* regularizing term of the goal function is 0.                             *)

\* sow_prisms: every seed carries the same property names, and a point in
\* the cell of an earlier seed is ignored
PrismSeedLists(shp) ==
    LET maxn == IF MeshSize(shp) <= SmallMesh THEN MaxSeeds ELSE 1
    IN  {sds \in UNION {[1 .. n -> [index : Cells(shp), props : PropChoices]] : n \in 1 .. maxn} :
            \A a, b \in DOMAIN sds : a # b => (sds[a].index # sds[b].index /\ DOMAIN sds[a].props = DOMAIN sds[b].props)}

\* is the cell committed by a seed or in the frontier of a seed
Claimed(hood, cells, n) == n \in cells \/ \E k \in DOMAIN hood : n \in Range(hood[k])

\* the neighbors of a cell that no seed has claimed
Unclaimed(hood, cells, n, shp, msk) ==
    LET Fresh(i) == ~Claimed(hood, cells, i)
    IN  SelectSeq(FindNeighbors(n, shp, msk, FALSE), Fresh)

\* SeedPrism.initialize, for the first k seeds in the order of harvest
RECURSIVE PrismNeighbors(_, _, _, _)
PrismNeighbors(k, sds, shp, msk) ==
    IF k = 0 THEN <<>>
    ELSE Append(PrismNeighbors(k - 1, sds, shp, msk),
                Unclaimed(PrismNeighbors(k - 1, sds, shp, msk), {sds[i].index : i \in DOMAIN sds}, sds[k].index, shp, msk))

\* SeedPrism._update_neighbors: neighbor j of seed k leaves the frontier and
\* its unclaimed neighbors join it
UpdateNeighbors(hood, cells, k, j, shp, msk) ==
    [hood EXCEPT ![k] = Pop(hood[k], j) \o Unclaimed([hood EXCEPT ![k] = Pop(hood[k], j)], cells \cup {hood[k][j]}, hood[k][j], shp, msk)]

\* one neighbor test-driven on every data module: the modules after the
\* calls and sum(dm.testdrive(n) for dm in dms)
DriveOne(prev, index, props, shp) ==
    [dms |-> Tuple([k \in DOMAIN prev.dms |-> Testdrive(prev.dms[k], index, props, shp).dm]),
     ms  |-> Append(prev.ms, SumSeq([k \in DOMAIN prev.dms |-> Testdrive(prev.dms[k], index, props, shp).ret * DenWithout(prev.dms, k)]))]

\* misfits = [sum(dm.testdrive(n) for dm in dms) for n in self.neighbors],
\* for the first n neighbors
RECURSIVE DriveAll(_, _, _, _, _)
DriveAll(dmseq, neighbors, n, props, shp) ==
    IF n = 0 THEN [dms |-> dmseq, ms |-> <<>>]
    ELSE DriveOne(DriveAll(dmseq, neighbors, n - 1, props, shp), neighbors[n], props, shp)

\* abs(m - misfit)/misfit >= self.delta in floating point: for misfit = 0
\* the quotient is inf when m # 0 (inf >= delta) and nan when m = 0
JudgeFilter(ms, mis) ==
    LET Passes(i) == IF mis = 0 THEN ms[i] # 0 ELSE RelativeChange(ms[i], mis)
    IN  SelectSeq(Tuple([i \in DOMAIN ms |-> i]), Passes)

\* best = decreased[numpy.argmin([goals[i] for i in decreased])]
JudgeBest(gs, decreased) == decreased[ArgMin(Tuple([d \in DOMAIN decreased |-> gs[decreased[d]]]))]

\* SeedPrism._standard_judge: [best, goals[best], misfits[best]], best
\* counted from 1, or None
NoBest == [j |-> 0, g |-> 0, m |-> 0]

StandardJudge(gs, ms, mis) ==
    IF JudgeFilter(ms, mis) = <<>> THEN NoBest
    ELSE [j |-> JudgeBest(gs, JudgeFilter(ms, mis)), g |-> gs[JudgeBest(gs, JudgeFilter(ms, mis))], m |-> ms[JudgeBest(gs, JudgeFilter(ms, mis))]]

\* goals = [m + sum((s.reg for s in seeds), self.mu*self.distance[n[0]]) ...]
\* with mu = 0 and every reg = 0
PrismGoals(ms) == ms

\* the state when _harvest_solver starts (harvest, lines 1177-1187, and
\* lines 1102-1108)
InitHarvest ==
    /\ shape \in GrowShapes
    /\ masked \in GrowMasks
    /\ seeds \in PrismSeedLists(shape)
    /\ \E body \in Bodies(shape), amp \in 1 .. MaxAmp, types \in {{"density"}, PropNames} :
           dms = UpdateSeeds(NewModules(types, body, amp, shape), seeds, shape)
    /\ fnCall = <<>>
    /\ stalled = {}
    /\ reg = <<>>
    /\ call = <<>>
    /\ dmLog = <<>>
    /\ committed = SeedCommitted(seeds)
    /\ iteration = 0
    /\ pos = 1
    /\ onegrew = FALSE
    /\ driver = "harvest"
    /\ estimate = <<>>
    /\ neighborhood = PrismNeighbors(Len(seeds), seeds, shape, masked)
    /\ goal = TotalMisfit(dms, [k \in DOMAIN dms |-> dms[k].predicted])
    /\ misfit = goal
    /\ goals = <<goal>>
    /\ misfits = <<goal>>
    /\ pc = "pass"

\* the end of a turn in _harvest_solver: while True ... if not grew: break
EndHarvestTurn(grew) ==
    IF pos < Len(seeds)
    THEN /\ pos' = pos + 1
         /\ onegrew' = (onegrew \/ grew)
         /\ UNCHANGED <<iteration, pc>>
    ELSE /\ pos' = 1
         /\ onegrew' = FALSE
         /\ iteration' = iteration + 1
         /\ pc' = IF onegrew \/ grew THEN "pass" ELSE "merge"

\* the cells committed by the seeds
AllCommitted == UNION {CommittedCells(k) : k \in DOMAIN seeds}

\* SeedPrism.grow and _harvest_solver, lines 1112-1119: the turn of one seed
HarvestTurn ==
    /\ pc = "pass"
    /\ driver = "harvest"
    /\ \E drive \in {DriveAll(dms, neighborhood[pos], Len(neighborhood[pos]), seeds[pos].props, shape)} :
       \E best \in {StandardJudge(PrismGoals(drive.ms), drive.ms, misfit)} :
          IF best = NoBest
          THEN /\ dms' = drive.dms
               /\ UNCHANGED <<neighborhood, committed, goal, misfit, goals, misfits>>
               /\ stalled' = stalled \cup {pos}
               /\ EndHarvestTurn(FALSE)
          ELSE /\ committed' = Recorded(pos, neighborhood[pos][best.j])
               /\ neighborhood' = UpdateNeighbors(neighborhood, AllCommitted, pos, best.j, shape, masked)
               /\ goal' = best.g
               /\ misfit' = best.m
               /\ goals' = Append(goals, best.g)
               /\ misfits' = Append(misfits, best.m)
               /\ dms' = UpdateAll(drive.dms, neighborhood[pos][best.j], seeds[pos].props, shape)
               /\ UNCHANGED stalled
               /\ EndHarvestTurn(TRUE)
    /\ UNCHANGED <<shape, masked, seeds, driver, estimate, fnCall, dmLog, reg, call>>

\* the seed whose list estimate[prop] is in _cat_estimate: the first seed
\* with the property
Owner(p) == CHOOSE k \in DOMAIN seeds : p \in DOMAIN committed[k] /\ \A l \in 1 .. (k - 1) : p \notin DOMAIN committed[l]

\* the lists of the seeds after l seeds were visited by the loop of
\* _cat_estimate: estimate[prop] is the list of the owner itself, and extend
\* appends to it
RECURSIVE Merged(_, _)
Merged(p, l) ==
    IF l = 0 THEN <<>>
    ELSE IF p \in DOMAIN committed[l] THEN Merged(p, l - 1) \o committed[l][p] ELSE Merged(p, l - 1)

\* SparseList(size, dict(pairs)): the last pair of an index gives its value
Sparse(pairs, shp) ==
    [c \in Cells(shp) |->
        IF \E t \in DOMAIN pairs : pairs[t][1] = c
        THEN pairs[CHOOSE t \in DOMAIN pairs : pairs[t][1] = c /\ \A u \in DOMAIN pairs : pairs[u][1] = c => u <= t][2]
        ELSE 0]

\* _cat_estimate, which ends _harvest_solver
HarvestMerge ==
    /\ pc = "merge"
    /\ driver = "harvest"
    /\ estimate' = [p \in SeedProps(seeds) |-> Sparse(Merged(p, Len(seeds)), shape)]
    /\ committed' = [k \in DOMAIN seeds |-> [p \in DOMAIN committed[k] |-> IF Owner(p) = k THEN Merged(p, Len(seeds)) ELSE committed[k][p]]]
    /\ pc' = "done"
    /\ UNCHANGED <<shape, masked, seeds, dms, driver, neighborhood, goal, misfit, goals, misfits, iteration, pos, onegrew, fnCall, dmLog, stalled, reg, call>>

NextHarvest == HarvestTurn \/ HarvestMerge

SpecHarvest == InitHarvest /\ [][NextHarvest]_vars

-----------------------------------------------------------------------------
(* Properties of the growth loops *)

\* the number of accepted accretions of the run so far
Accretions == Len(goals) - 1

\* do seeds i and j carry a common property name
SharesProperty(i, j) == (DOMAIN seeds[i].props) \cap (DOMAIN seeds[j].props) # {}

\* the cells a seed committed for a property, in the order of the commits
CellsOf(k, p) == Tuple([t \in DOMAIN committed[k][p] |-> committed[k][p][t][1]])

CommitsOf(c, p) == {kt \in UNION {{<<k, t>> : t \in DOMAIN committed[k][p]} : k \in {l \in DOMAIN seeds : p \in DOMAIN committed[l]}} : committed[kt[1]][p][kt[2]][1] = c}

MisfitHistoryMonotone == \A t \in 1 .. (Len(misfits) - 1) : misfits[t + 1] <= misfits[t]

\* C4: the number of accepted accretions of a run never exceeds
\* mesh_size - seed_count.
BoundedGrowth == Accretions <= MeshSize(shape) - Len(seeds)

\* the estimate with density 1 at the cells of a set and 0 elsewhere
DensityAt(cells) == [p \in {"density"} |-> [c \in Cells(shape) |-> IF c \in cells THEN 1 ELSE 0]]

\* the 3x3x1 mesh with one seed at cell 4 and one data module whose observed
\* data are the effect of a body of the density of the seed
Scenario(body) ==
    /\ shape = <<1, 3, 3>>
    /\ seeds = << [index |-> 4, props |-> [p \in {"density"} |-> 1]] >>
    /\ Len(dms) = 1
    /\ dms[1].data = ObservedData(body, 1, shape)

\* C9: on the 3x3x1 mesh with one seed at cell 4 and observed data equal to
\* the effect of the seed cell alone, the run ends with zero accretions, the
\* estimate is the seed density at cell 4 and 0 elsewhere, and the goal
\* history has length 1.
ExactFitResult ==
    (Scenario({4}) /\ pc = "done") =>
        (Accretions = 0 /\ Len(goals) = 1 /\ estimate = DensityAt({4}))

\* C10: on the 3x3x1 mesh with one seed at cell 4 and observed data equal to
\* the effect of cells 1, 3, 4, 5 and 7, grow accepts one accretion in each
\* of the first four passes, in the order of the frontier of the seed, and
\* ends after exactly 4 accretions with total misfit 0 and the estimate set
\* exactly at cells 1, 3, 4, 5 and 7.
GrowthResult ==
    Scenario({1, 3, 4, 5, 7}) =>
        /\ CellsOf(1, "density") = SubSeq(<<4>> \o FindNeighbors(4, shape, masked, FALSE), 1, Accretions + 1)
        /\ pc = "pass" => Accretions = iteration
        /\ pc = "done" => (Accretions = 4 /\ iteration = 5 /\ goal = 0 /\ estimate = DensityAt({1, 3, 4, 5, 7}))

\* the run of the growth scenario is over, after four accretions
GrowthResultWitness == Scenario({1, 3, 4, 5, 7}) /\ pc = "done" /\ Accretions = 4

-----------------------------------------------------------------------------
(* find_neighbors called on the cells of a mesh *)

\* the meshes: every shape up to MaxDim cells a side, at most MaxMasked
\* cells masked out (mesh[i] is None)
GridShapes == {<<nz, ny, nx>> : nz \in 1 .. MaxDim, ny \in 1 .. MaxDim, nx \in 1 .. MaxDim}

\* the sets of at most k of the cells
RECURSIVE SetsUpTo(_, _)
SetsUpTo(cells, k) ==
    IF k = 0
    THEN {{}}
    ELSE LET smaller == SetsUpTo(cells, k - 1)
         IN  smaller \cup {m \cup {c} : m \in smaller, c \in cells}

GridMasks(shp) == SetsUpTo(Cells(shp), MaxMasked)

\* the growth variables are not used by the calls on a mesh or on a module
Idle ==
    /\ seeds = <<>>
    /\ estimate = <<>>
    /\ committed = <<>>
    /\ neighborhood = <<>>
    /\ goal = 0
    /\ misfit = 0
    /\ goals = <<>>
    /\ misfits = <<>>
    /\ iteration = 0
    /\ pos = 1
    /\ onegrew = FALSE

InitGrid ==
    /\ shape \in GridShapes
    /\ masked \in GridMasks(shape)
    /\ driver = "find_neighbors"
    /\ pc = "call"
    /\ dms = <<>>
    /\ fnCall = <<>>
    /\ stalled = {}
    /\ reg = <<>>
    /\ call = <<>>
    /\ dmLog = <<>>
    /\ Idle

\* one call find_neighbors(n, mesh, full)
FindNeighborsCall ==
    /\ driver = "find_neighbors"
    /\ pc = "call"
    /\ \E n \in Cells(shape), full \in BOOLEAN :
           fnCall' = [n |-> n, full |-> full, result |-> FindNeighbors(n, shape, masked, full)]
    /\ pc' = "done"
    /\ UNCHANGED <<shape, masked, seeds, dms, driver, estimate, committed, neighborhood, goal, misfit, goals, misfits, iteration, pos, onegrew, dmLog, stalled, reg, call>>

NextGrid == FindNeighborsCall

SpecGrid == InitGrid /\ [][NextGrid]_vars

\* the unmasked cells of the mesh
Unmasked == Cells(shape) \ masked

\* C5: for all unmasked cells a and b, a is returned by find_neighbors(b)
\* in face mode if and only if b is returned by find_neighbors(a).
NeighborSymmetry ==
    (fnCall # <<>> /\ ~fnCall.full /\ fnCall.n \in Unmasked) =>
        \A a \in Unmasked :
            (a \in Range(fnCall.result)) <=> (fnCall.n \in Range(FindNeighbors(a, shape, masked, FALSE)))

\* C6: in face mode find_neighbors(index) returns exactly the unmasked cells
\* of the grid whose coordinates differ from those of index by 1 along
\* exactly one axis.
FaceNeighborsExact ==
    (fnCall # <<>> /\ ~fnCall.full) =>
        Range(fnCall.result) = {b \in Unmasked : FaceAdjacent(fnCall.n, b, shape)}

\* C7: in full mode find_neighbors(index) returns exactly the unmasked cells
\* of the grid, other than index, whose coordinates differ from those of
\* index by at most 1 on every axis.
FullNeighborsExact ==
    (fnCall # <<>> /\ fnCall.full) =>
        Range(fnCall.result) = {b \in Unmasked : Adjacent26(fnCall.n, b, shape)}

-----------------------------------------------------------------------------
(* testdrive and update called on one data module *)

\* the longest run of calls between two updates, and the number of updates
MaxCalls == 3

MaxUpdates == 1

\* the mesh of the module
ModuleShape == <<1, 1, 2>>

\* the elements [index, props] handed to the module: two values of the
\* property of the module, and a property the module does not see
Elements == [index : Cells(ModuleShape), props : {[p \in {"density"} |-> 1], [p \in {"density"} |-> 2], [p \in {"magnetization"} |-> 1]}]

InitDM ==
    /\ shape = ModuleShape
    /\ masked = {}
    /\ driver = "DMPrism"
    /\ pc = "call"
    /\ \E body \in Bodies(shape), type \in PropNames :
           dms = << [prop_type |-> type, data |-> ObservedData(body, 1, shape),
                     predicted |-> ZeroVec(shape), effect |-> <<>>] >>
    /\ fnCall = <<>>
    /\ stalled = {}
    /\ reg = <<>>
    /\ call = <<>>
    /\ dmLog = <<>>
    /\ Idle

\* one call dm.testdrive(element)
TestdriveCall ==
    /\ driver = "DMPrism"
    /\ Len(dmLog) < MaxCalls
    /\ \E e \in Elements :
          \E r \in {Testdrive(dms[1], e.index, e.props, shape)} :
              /\ dms' = << r.dm >>
              /\ dmLog' = Append(dmLog, [elem |-> e, ret |-> r.ret, cached |-> e.index \in DOMAIN dms[1].effect])
    /\ UNCHANGED <<shape, masked, seeds, driver, estimate, committed, neighborhood, goal, misfit, goals, misfits, iteration, pos, onegrew, pc, fnCall, stalled, reg, call>>

\* one call dm.update(element): the commit that ends a run of testdrives
UpdateCall ==
    /\ driver = "DMPrism"
    /\ iteration < MaxUpdates
    /\ \E e \in Elements : dms' = << Update(dms[1], e.index, e.props, shape) >>
    /\ dmLog' = <<>>
    /\ iteration' = iteration + 1
    /\ UNCHANGED <<shape, masked, seeds, driver, estimate, committed, neighborhood, goal, misfit, goals, misfits, pos, onegrew, pc, fnCall, stalled, reg, call>>

NextDM == TestdriveCall \/ UpdateCall

SpecDM == InitDM /\ [][NextDM]_vars

\* C8: two testdrive calls on the same candidate with no update between them
\* return the same misfit value, whether or not the effect of the candidate
\* was cached before the first of the two calls.
TestdriveIdempotent ==
    \A s, t \in DOMAIN dmLog :
        (s < t /\ dmLog[s].elem = dmLog[t].elem) => dmLog[s].ret = dmLog[t].ret

\* a candidate the module sees was driven twice after an update, the first
\* time with no cached effect, and a candidate was driven twice with its
\* effect cached by an earlier call
TestdriveIdempotentWitness ==
    /\ iteration >= 1
    /\ \E s, t \in DOMAIN dmLog :
          /\ s < t /\ dmLog[s].elem = dmLog[t].elem
          /\ dms[1].prop_type \in DOMAIN dmLog[s].elem.props
          /\ ~dmLog[s].cached
    /\ \E s, t \in DOMAIN dmLog :
          /\ s < t /\ dmLog[s].elem = dmLog[t].elem
          /\ dms[1].prop_type \in DOMAIN dmLog[s].elem.props
          /\ dmLog[s].cached

-----------------------------------------------------------------------------
(* Properties of the passes of the growth loops *)

\* grow on a row of cells with seeds of positive and negative density
\* contrast, and observed data that are the effect of a body of positive and
\* negative densities
SignedShapes == {<<1, 1, 3>>, <<1, 1, 4>>}

SignedSeeds(shp) ==
    LET SeedSet == [index : Cells(shp), props : {[p \in {"density"} |-> v] : v \in {-1, 1}}]
    IN  {sds \in UNION {[1 .. n -> SeedSet] : n \in 1 .. MaxSeeds} : NoDuplicateSeeds(sds)}

\* the effect of a body whose cell c has density amp[c]
SignedEffect(amp, shp) == Tuple([q \in Points(shp) |-> SumSeq([c \in 1 .. MeshSize(shp) |-> amp[c - 1] * Kernel(c - 1, q, shp)])])

SignedData(shp) == {SignedEffect(amp, shp) : amp \in [Cells(shp) -> (-MaxAmp) .. MaxAmp]} \ {ZeroVec(shp)}

InitSigned ==
    /\ shape \in SignedShapes
    /\ masked = {}
    /\ seeds \in SignedSeeds(shape)
    /\ \E data \in SignedData(shape) :
           dms = UpdateSeeds(<< [prop_type |-> "density", data |-> data, predicted |-> ZeroVec(shape), effect |-> <<>>] >>, seeds, shape)
    /\ fnCall = <<>>
    /\ stalled = {}
    /\ reg = <<>>
    /\ call = <<>>
    /\ dmLog = <<>>
    /\ committed = SeedCommitted(seeds)
    /\ iteration = 0
    /\ pos = 1
    /\ onegrew = FALSE
    /\ driver = "grow"
    /\ estimate = SeedEstimate(seeds, shape)
    /\ neighborhood = SeedNeighborhood(Len(seeds), seeds, estimate, shape, masked)
    /\ goal = TotalMisfit(dms, [k \in DOMAIN dms |-> dms[k].predicted])
    /\ misfit = goal
    /\ goals = <<goal>>
    /\ misfits = <<goal>>
    /\ pc = IF MeshSize(shape) - Len(seeds) > 0 THEN "pass" ELSE "done"

SpecSigned == InitSigned /\ [][Next]_vars

\* C13: once the jury has answered None for a seed, that seed accepts no
\* accretion in any later pass of the run.
StalledIsTerminal == [][Accretions' > Accretions => pos \notin stalled]_vars

\* the two growth loops
InitLoops == Init \/ InitHarvest

NextLoops == GrowTurn \/ HarvestTurn \/ HarvestMerge

SpecLoops == InitLoops /\ [][NextLoops]_vars

\* the turn of the last seed of a pass in which no seed grows
LastTurnOfIdlePass == pc = "pass" /\ pos = Len(seeds) /\ ~onegrew /\ Accretions' = Accretions

\* the (cell, property) pairs no seed has committed
FreePairs == MeshSize(shape) * Cardinality(PropNames) - SumSeq([k \in DOMAIN seeds |-> SumSeq([t \in 1 .. Cardinality(DOMAIN committed[k]) |-> Accreted(k) + 1])])

\* a bound on the number of turns a run still has
TurnsLeft ==
    CASE pc = "done" -> 0
      [] pc = "merge" -> 1
      [] OTHER -> 2 + FreePairs * (2 * Len(seeds) + 1) + (IF onegrew THEN Len(seeds) ELSE 0) + (Len(seeds) - pos)

\* C12: every run of grow and of _harvest_solver ends, and the loop is left
\* right after the first pass in which no seed grew: no seed is offered a
\* step after such a pass.  A run ends because every turn lowers the
\* natural number TurnsLeft.
LoopTerminates ==
    [][/\ TurnsLeft' < TurnsLeft
       /\ TurnsLeft' >= 0
       /\ LastTurnOfIdlePass => pc' \in {"done", "merge"}]_vars

\* a run that grew and then ended on a pass without growth, the mesh not
\* used up
LoopTerminatesWitness == pc = "done" /\ Accretions >= 1 /\ Accretions < MeshSize(shape) - Len(seeds) /\ iteration = Accretions + 1

-----------------------------------------------------------------------------
(* grow with standard_jury(regularizer=ConcentrationRegularizer(...)).     *)
(* The jury reads the data modules only through the misfit of each         *)
(* candidate, so here the misfits of the candidates of a turn are drawn    *)
(* from CandidateMisfits and there are no data modules.  Cells are unit      *)
(* cubes, power = 4 and weight*mu = 1/MuDen; goal values are kept          *)
(* multiplied by MuDen.                                                    *)

\* the largest misfit of a candidate
MaxMisfit == 3

\* 1/(weight*mu) of the regularizer
MuDen == 4

\* calc_dist(cell1, cell2)**2 for unit cells
Dist2(a, b, shp) == SumSeq([x \in 1 .. 3 |-> AxisDiffs(a, b, shp)[x] * AxisDiffs(a, b, shp)[x]])

\* MuDen * weight*mu*(dist**power), from the squared distance
RegTerm(d2) == d2 * d2

\* ConcentrationRegularizer.__init__: reg = 0, timeline = [0.], dists = {}
NewRegularizer == [reg |-> 0, dists |-> <<>>, timeline |-> <<0>>]

\* self.dists after __call__(neighbor, seed) for each cell of a list:
\* "if n not in self.dists: self.dists[n] = calc_dist(mesh[n], mesh[s])"
DistsAfter(dists, cells, s, shp) ==
    [c \in (DOMAIN dists) \cup cells |-> IF c \in DOMAIN dists THEN dists[c] ELSE Dist2(c, s, shp)]

\* goals = [m + regularizer(neighbors[i], seed) for i, m in decreased]
RegGoals(ms, decreased, neighbors, r, dists) ==
    Tuple([d \in DOMAIN decreased |-> ms[decreased[d]] * MuDen + r.reg + RegTerm(dists[neighbors[decreased[d]]])])

\* ConcentrationRegularizer.update(neighbor)
RegUpdate(r, dists, n) ==
    [reg |-> r.reg + RegTerm(dists[n]), dists |-> [c \in (DOMAIN dists) \ {n} |-> dists[c]],
     timeline |-> Append(r.timeline, r.reg + RegTerm(dists[n]))]

\* a jury that records the total of the regularizer also when it declines
RegularizedJuryRecording(neighbors, s, ms, mis, r, shp) ==
    LET decreased == Decreased(ms, mis)
        dists     == DistsAfter(r.dists, {neighbors[decreased[d]] : d \in DOMAIN decreased}, s, shp)
        gs        == RegGoals(ms, decreased, neighbors, r, dists)
    IN  IF decreased = <<>>
        THEN [j |-> 0, decreased |-> decreased, goals |-> <<>>, reg |-> [r EXCEPT !.timeline = Append(r.timeline, r.reg)]]
        ELSE [j |-> decreased[ArgMin(gs)], decreased |-> decreased, goals |-> gs,
              reg |-> RegUpdate(r, dists, neighbors[decreased[ArgMin(gs)]])]

\* standard_jury with a regularizer: the index of the best neighbor (0 for
\* None), the goals of the decreased ones, and the regularizer afterwards
RegularizedJury(neighbors, s, ms, mis, r, shp) ==
    LET decreased == Decreased(ms, mis)
        dists     == DistsAfter(r.dists, {neighbors[decreased[d]] : d \in DOMAIN decreased}, s, shp)
        gs        == RegGoals(ms, decreased, neighbors, r, dists)
    IN  IF decreased = <<>>
        THEN [j |-> 0, decreased |-> decreased, goals |-> <<>>, reg |-> r]
        ELSE [j |-> decreased[ArgMin(gs)], decreased |-> decreased, goals |-> gs,
              reg |-> RegUpdate(r, dists, neighbors[decreased[ArgMin(gs)]])]

JuryShapes == {<<1, 2, 3>>}

\* the misfits a candidate can have when the misfit is mis: smaller ones,
\* mis itself, and one larger
CandidateMisfits(mis) == 0 .. (IF mis < MaxMisfit THEN mis + 1 ELSE MaxMisfit)

\* seeds of one property each, in the first and the last cell of the mesh
JurySeeds(shp) ==
    LET SeedSet == [index : {0, MeshSize(shp) - 1}, props : {[p \in {name} |-> 1] : name \in PropNames}]
    IN  {sds \in UNION {[1 .. n -> SeedSet] : n \in 1 .. MaxSeeds} : NoDuplicateSeeds(sds)}

InitJury ==
    /\ shape \in JuryShapes
    /\ masked = {}
    /\ seeds \in JurySeeds(shape)
    /\ dms = <<>>
    /\ fnCall = <<>>
    /\ dmLog = <<>>
    /\ stalled = {}
    /\ call = <<>>
    /\ reg = NewRegularizer
    /\ committed = SeedCommitted(seeds)
    /\ iteration = 0
    /\ pos = 1
    /\ onegrew = FALSE
    /\ driver = "grow regularized"
    /\ estimate = SeedEstimate(seeds, shape)
    /\ neighborhood = SeedNeighborhood(Len(seeds), seeds, estimate, shape, masked)
    /\ goal = MaxMisfit
    /\ misfit = goal
    /\ goals = <<goal>>
    /\ misfits = <<goal>>
    /\ pc = IF MeshSize(shape) - Len(seeds) > 0 THEN "pass" ELSE "done"

\* grow, lines 531-553, with the regularized jury: the turn of one seed
JuryTurn ==
    /\ pc = "pass"
    /\ driver = "grow regularized"
    /\ \E ms \in [DOMAIN neighborhood[pos] -> CandidateMisfits(goal)] :
       \E chosen \in {RegularizedJury(neighborhood[pos], seeds[pos].index, ms, goal, reg, shape)} :
          /\ call' = [op |-> "standard_jury", seed |-> pos, neighbors |-> neighborhood[pos], ms |-> ms,
                      misfit |-> goal, decreased |-> chosen.decreased, goals |-> chosen.goals, result |-> chosen.j]
          /\ reg' = chosen.reg
          /\ IF chosen.j = 0
             THEN /\ UNCHANGED <<estimate, dms, neighborhood, committed, goal, misfit, goals, misfits>>
                  /\ stalled' = stalled \cup {pos}
                  /\ EndTurn(FALSE, MeshSize(shape) - Len(seeds))
             ELSE /\ GrowAccept(chosen.j, ms[chosen.j])
                  /\ UNCHANGED stalled
    /\ UNCHANGED <<shape, masked, seeds, driver, fnCall, dmLog>>

NextJury == JuryTurn

SpecJury == InitJury /\ [][NextJury]_vars

\* the candidates of the last jury call that pass the acceptance filter
Survivors == {i \in DOMAIN call.ms : call.ms[i] < call.misfit /\ Abs(call.ms[i] - call.misfit) * ThreshDen >= call.misfit}

\* the squared distance of candidate i of the last jury call to the origin
\* of the seed the jury was called for
OriginDist2(i) == Dist2(call.neighbors[i], seeds[call.seed].index, shape)

\* C11: when two candidates of a seed pass the acceptance filter with equal
\* misfit and lie at different distances from the seed origin, the jury with
\* mu > 0 does not select the farther one, whatever their order in the
\* frontier.
NearerPreferred ==
    (call # <<>> /\ call.op = "standard_jury" /\ call.result # 0) =>
        ~ \E i \in Survivors : call.ms[i] = call.ms[call.result] /\ OriginDist2(i) < OriginDist2(call.result)

-----------------------------------------------------------------------------
(* Single calls of the two standard choosers, on drawn misfits *)

\* the largest number of candidates of a single call
MaxCandidates == 2

InitPolicy ==
    /\ shape \in JuryShapes
    /\ masked = {}
    /\ driver = "chooser"
    /\ pc = "call"
    /\ dms = <<>>
    /\ fnCall = <<>>
    /\ stalled = {}
    /\ reg = NewRegularizer
    /\ call = <<>>
    /\ dmLog = <<>>
    /\ Idle

\* the frontier of a lone seed s when grow starts
FirstFrontier(s, shp) == FindNeighbors(s, shp, {}, FALSE)

\* one call of the jury of standard_jury(regularizer) for a lone seed with a
\* new regularizer
StandardJuryCall ==
    /\ driver = "chooser"
    /\ pc = "call"
    /\ \E s \in Cells(shape), mis \in 1 .. MaxMisfit :
       \E ms \in [DOMAIN FirstFrontier(s, shape) -> 0 .. MaxMisfit] :
       \E chosen \in {RegularizedJury(FirstFrontier(s, shape), s, ms, mis, reg, shape)} :
          /\ call' = [op |-> "standard_jury", ms |-> ms, misfit |-> mis, result |-> chosen.j,
                      objective |-> Tuple([i \in DOMAIN ms |-> ms[i] * MuDen + reg.reg
                                              + RegTerm(Dist2(FirstFrontier(s, shape)[i], s, shape))])]
          /\ reg' = chosen.reg
    /\ pc' = "done"
    /\ UNCHANGED <<shape, masked, seeds, dms, driver, estimate, committed, neighborhood, goal, misfit, goals, misfits, iteration, pos, onegrew, fnCall, dmLog, stalled>>

\* one call self._standard_judge(goals, misfits, goal, misfit), the goals
\* being the misfits plus a regularization that is not negative
StandardJudgeCall ==
    /\ driver = "chooser"
    /\ pc = "call"
    /\ \E n \in 1 .. MaxCandidates, mis \in 1 .. MaxMisfit :
       \E ms \in [1 .. n -> 0 .. MaxMisfit], rs \in [1 .. n -> 0 .. MaxMisfit] :
       \E gs \in {Tuple([i \in 1 .. n |-> ms[i] + rs[i]])} :
          call' = [op |-> "_standard_judge", ms |-> ms, misfit |-> mis,
                   result |-> StandardJudge(gs, ms, mis).j, objective |-> gs]
    /\ pc' = "done"
    /\ UNCHANGED <<shape, masked, seeds, dms, driver, estimate, committed, neighborhood, goal, misfit, goals, misfits, iteration, pos, onegrew, fnCall, dmLog, stalled, reg>>

NextPolicy == StandardJuryCall \/ StandardJudgeCall

SpecPolicy == InitPolicy /\ [][NextPolicy]_vars

\* C14: a chooser returns a candidate only if its misfit m is strictly
\* smaller than the current misfit and |m - misfit| / misfit >= delta, the
\* returned candidate has the least combined objective among the candidates
\* that meet both conditions, and none is returned exactly when no candidate
\* meets both.
StandardAcceptance ==
    call # <<>> =>
        /\ call.result # 0 =>
              /\ call.result \in Survivors
              /\ \A i \in Survivors : call.objective[call.result] <= call.objective[i]
        /\ call.result = 0 <=> Survivors = {}

-----------------------------------------------------------------------------
(* The order of the frontier and the choice among equal misfits, in grow *)

\* the place of cell n among the face neighbours of cell c: above (one layer
\* up), below, front (next column), back, left (next row), right
DiscoveryRank(c, n, shp) ==
    CASE CoordK(n, shp) = CoordK(c, shp) - 1 -> 1
      [] CoordK(n, shp) = CoordK(c, shp) + 1 -> 2
      [] CoordI(n, shp) = CoordI(c, shp) + 1 -> 3
      [] CoordI(n, shp) = CoordI(c, shp) - 1 -> 4
      [] CoordJ(n, shp) = CoordJ(c, shp) + 1 -> 5
      [] OTHER -> 6

\* s lists face neighbours of cell c in the order above, below, front, back,
\* left, right
InDiscoveryOrder(s, c) ==
    /\ \A a \in DOMAIN s : FaceAdjacent(s[a], c, shape)
    /\ \A a, b \in DOMAIN s : a < b => DiscoveryRank(c, s[a], shape) < DiscoveryRank(c, s[b], shape)

\* the misfits of the candidates of the seed whose turn it is
TurnMisfits == JuryMisfits(neighborhood[pos], seeds[pos].props, dms, shape)

\* the candidates with misfits ms that pass the acceptance filter
TurnSurvivors(ms) == {i \in DOMAIN ms : ms[i] < goal /\ RelativeChange(ms[i], goal)}

\* C15: among the candidates that pass the acceptance filter with the same
\* least misfit the first of the frontier list is accreted, and a frontier
\* list is in discovery order: the free face neighbours of the origin in the
\* order above, below, front, back, left, right, then, after each accretion,
\* the new neighbours of the accreted cell appended in that order.
FirstOfTies ==
    [][/\ (pc = "pass" /\ Accretions = 0 /\ iteration = 0) =>
              \A k \in DOMAIN seeds : InDiscoveryOrder(neighborhood[k], seeds[k].index)
       /\ Accretions' > Accretions =>
              \E ms \in {TurnMisfits} : \E j \in TurnSurvivors(ms) :
                 /\ \A p \in DOMAIN seeds[pos].props :
                        committed'[pos][p] = Append(committed[pos][p], <<neighborhood[pos][j], seeds[pos].props[p]>>)
                 /\ neighborhood[pos][j] \notin CommittedCells(pos)
                 /\ \A i \in TurnSurvivors(ms) : ms[i] > ms[j] \/ (ms[i] = ms[j] /\ i >= j)
                 /\ SubSeq(neighborhood'[pos], 1, Len(neighborhood[pos]) - 1) = Pop(neighborhood[pos], j)
                 /\ InDiscoveryOrder(SubSeq(neighborhood'[pos], Len(neighborhood[pos]), Len(neighborhood'[pos])),
                                     neighborhood[pos][j])]_vars

\* after an accretion, two candidates of a seed pass the filter with the same
\* least misfit, and the frontier of the seed has appended neighbours
FirstOfTiesWitness ==
    /\ pc = "pass"
    /\ driver = "grow"
    /\ Accretions >= 1
    /\ Len(neighborhood[pos]) >= 3
    /\ \E ms \in {TurnMisfits} : \E i, j \in TurnSurvivors(ms) :
          /\ i < j
          /\ ms[i] = ms[j]
          /\ \A t \in TurnSurvivors(ms) : ms[t] >= ms[i]

-----------------------------------------------------------------------------
(* grow with shape_jury(regularizer=None).  The choice among the candidates *)
(* that decrease the goal is by dm.shape_of_anomaly, which the data modules *)
(* of this repository do not define: any of them may be chosen.             *)

\* the maxcmp the jury is made with: shape_jury(maxcmp=2)
maxcmp == 2

\* compact = 1 + it/nseeds; if compact > maxcmp: compact = maxcmp
Compact(it, nseeds) == IF 1 + (it \div nseeds) > maxcmp THEN maxcmp ELSE 1 + (it \div nseeds)

\* an is_compact that lets every neighbor through
IsCompactAlways(est, n, props, compact, shp, msk) == TRUE

\* is_compact: around = neighbor['neighbors'] is find_neighbors(n, mesh,
\* full=True), with the props of the neighbor
IsCompact(est, n, props, compact, shp, msk) ==
    LET around == FindNeighbors(n, shp, msk, TRUE)
    IN  Len(around) - Len(FreeNeighbors(est, around, props)) >= compact

\* left = [(i, n) for i, n in enumerate(neighbors) if is_compact(...)]
CompactOnes(neighbors, est, props, compact, shp, msk) ==
    LET Passes(i) == IsCompact(est, neighbors[i], props, compact, shp, msk)
    IN  SelectSeq(Tuple([i \in DOMAIN neighbors |-> i]), Passes)

\* decreased = [(i, g) for i, g in goals if g < goal and abs(g - goal)/goal
\* >= thresh], the goals being the misfits of the ones that are left
ShapeDecreased(neighbors, left, props, dmseq, mis, shp) ==
    LET ms == JuryMisfits(Tuple([d \in DOMAIN left |-> neighbors[left[d]]]), props, dmseq, shp)
    IN  {[j |-> left[d], m |-> ms[d]] : d \in {e \in DOMAIN left : ms[e] < mis /\ RelativeChange(ms[e], mis)}}

\* grow starts on a mesh of one layer, with density data
InitShape ==
    /\ shape = <<1, MaxDim, MaxDim>>
    /\ masked = {}
    /\ seeds \in {sds \in SeedLists(shape, masked) : \A k \in DOMAIN sds : DOMAIN sds[k].props = {"density"}}
    /\ \E body \in Bodies(shape) :
           dms = UpdateSeeds(NewModules({"density"}, body, 1, shape), seeds, shape)
    /\ fnCall = <<>>
    /\ stalled = {}
    /\ reg = <<>>
    /\ call = <<>>
    /\ dmLog = <<>>
    /\ committed = SeedCommitted(seeds)
    /\ iteration = 0
    /\ pos = 1
    /\ onegrew = FALSE
    /\ driver = "grow shape"
    /\ estimate = SeedEstimate(seeds, shape)
    /\ neighborhood = SeedNeighborhood(Len(seeds), seeds, estimate, shape, masked)
    /\ goal = TotalMisfit(dms, [k \in DOMAIN dms |-> dms[k].predicted])
    /\ misfit = goal
    /\ goals = <<goal>>
    /\ misfits = <<goal>>
    /\ pc = IF MeshSize(shape) - Len(seeds) > 0 THEN "pass" ELSE "done"

\* grow, lines 531-553, with the jury of shape_jury: the turn of one seed
ShapeTurn ==
    /\ pc = "pass"
    /\ driver = "grow shape"
    /\ \E left \in {CompactOnes(neighborhood[pos], estimate, seeds[pos].props, Compact(iteration, Len(seeds)), shape, masked)} :
       \E decreased \in {ShapeDecreased(neighborhood[pos], left, seeds[pos].props, dms, goal, shape)} :
          IF decreased = {}
          THEN /\ call' = [op |-> "shape_jury", it |-> iteration, compact |-> Compact(iteration, Len(seeds)),
                           neighbors |-> neighborhood[pos], left |-> left, result |-> 0]
               /\ UNCHANGED <<estimate, dms, neighborhood, committed, goal, misfit, goals, misfits>>
               /\ stalled' = stalled \cup {pos}
               /\ EndTurn(FALSE, MeshSize(shape) - Len(seeds))
          ELSE \E best \in decreased :
               /\ call' = [op |-> "shape_jury", it |-> iteration, compact |-> Compact(iteration, Len(seeds)),
                           neighbors |-> neighborhood[pos], left |-> left, result |-> best.j]
               /\ GrowAccept(best.j, best.m)
               /\ UNCHANGED stalled
    /\ UNCHANGED <<shape, masked, seeds, driver, fnCall, dmLog, reg>>

NextShape == ShapeTurn

SpecShape == InitShape /\ [][NextShape]_vars

\* the cells of the 26-neighbourhood of cell n that the estimate holds with
\* one of the properties props
CommittedAround(est, n, props) == {c \in Cells(shape) : Adjacent26(c, n, shape) /\ InEstimate(est, c, props)}

-----------------------------------------------------------------------------
(* sow and sow_prisms.  The mesh starts at (0, 0, 0) and its cells are     *)
(* cubes of side CellSide; points have integer coordinates.                *)

\* dx = dy = dz of the mesh
CellSide == 2

SowShapes == {<<1, 2, 2>>}

\* xs = numpy.arange(x1, x2, dx) for an axis of n cells
AxisStarts(n) == [t \in 1 .. n |-> (t - 1) * CellSide]

\* bisect.bisect_left(xs, x) for a sorted xs
BisectLeft(xs, x) == Cardinality({t \in DOMAIN xs : xs[t] < x})

\* x <= x2 and x >= x1 and y <= y2 and y >= y1 and z <= z2 and z >= z1
InBounds(point, shp) ==
    /\ point[1] >= 0 /\ point[1] <= Nx(shp) * CellSide
    /\ point[2] >= 0 /\ point[2] <= Ny(shp) * CellSide
    /\ point[3] >= 0 /\ point[3] <= Nz(shp) * CellSide

\* s = i + j*nx + k*nx*ny with i, j, k from bisect_left(...) - 1
SowIndex(point, shp) ==
    (BisectLeft(AxisStarts(Nx(shp)), point[1]) - 1)
    + (BisectLeft(AxisStarts(Ny(shp)), point[2]) - 1) * Nx(shp)
    + (BisectLeft(AxisStarts(Nz(shp)), point[3]) - 1) * Nx(shp) * Ny(shp)

\* sow, lines 232-244, for one point: the seed index found, the ValueError
\* of line 244, or the IndexError of mesh[s]; a negative s counts from the
\* end of the list of cells
SowPoint(point, shp, msk) ==
    IF ~InBounds(point, shp) THEN [kind |-> "ValueError", index |-> None]
    ELSE LET s == SowIndex(point, shp)
             cell == IF s < 0 THEN s + MeshSize(shp) ELSE s
         IN  IF cell < 0 THEN [kind |-> "IndexError", index |-> None]
             ELSE IF Exists(cell, msk) THEN [kind |-> "found", index |-> s]
             ELSE [kind |-> "ValueError", index |-> None]

\* sow, lines 245-257: the pairs of seeds with the same index and a common
\* physical property
Duplicates(sds) == {ab \in (DOMAIN sds) \X (DOMAIN sds) :
                       /\ ab[1] < ab[2]
                       /\ sds[ab[1]].index = sds[ab[2]].index
                       /\ (DOMAIN sds[ab[1]].props) \cap (DOMAIN sds[ab[2]].props) # {}}

\* sow(mesh, rawseeds): the seeds, or the error raised
Sow(rawseeds, shp, msk) ==
    LET found == [t \in DOMAIN rawseeds |-> SowPoint(rawseeds[t].point, shp, msk)]
        sds   == [t \in DOMAIN rawseeds |-> [index |-> found[t].index, props |-> rawseeds[t].props]]
    IN  IF \E t \in DOMAIN rawseeds : found[t].kind # "found"
        THEN [error |-> found[CHOOSE t \in DOMAIN rawseeds :
                                 found[t].kind # "found" /\ \A u \in 1 .. (t - 1) : found[u].kind = "found"].kind,
              seeds |-> <<>>]
        ELSE IF Duplicates(sds) # {}
        THEN [error |-> "ValueError", seeds |-> <<>>]
        ELSE [error |-> "none", seeds |-> sds]

\* the cells whose closed box holds the point
CellsHolding(point, shp) ==
    {c \in Cells(shp) :
        /\ point[1] >= CoordI(c, shp) * CellSide /\ point[1] <= (CoordI(c, shp) + 1) * CellSide
        /\ point[2] >= CoordJ(c, shp) * CellSide /\ point[2] <= (CoordJ(c, shp) + 1) * CellSide
        /\ point[3] >= CoordK(c, shp) * CellSide /\ point[3] <= (CoordK(c, shp) + 1) * CellSide}

\* SeedPrism._get_index(point, mesh): the index of the prism that has the
\* point inside it
GetIndex(point, shp) == CHOOSE c \in CellsHolding(point, shp) : \A d \in CellsHolding(point, shp) : c <= d

\* sow_prisms(points, props, mesh), lines 643-654: a seed whose index is
\* already among the seeds is left out
RECURSIVE SowPrisms(_, _, _)
SowPrisms(points, props, shp) ==
    IF points = <<>> THEN <<>>
    ELSE LET before == SowPrisms(SubSeq(points, 1, Len(points) - 1), props, shp)
             index  == GetIndex(points[Len(points)], shp)
         IN  IF \E t \in DOMAIN before : before[t].index = index
             THEN before
             ELSE Append(before, [index |-> index, props |-> props])

\* the points around and in the mesh, and one point inside each cell
SowPoints(shp) == (-1 .. Nx(shp) * CellSide + 1) \X (-1 .. Ny(shp) * CellSide + 1) \X (-1 .. Nz(shp) * CellSide + 1)

InnerPoints(shp) == {<<CoordI(c, shp) * CellSide + 1, CoordJ(c, shp) * CellSide + 1, CoordK(c, shp) * CellSide + 1>> : c \in Cells(shp)}

\* the lists of raw seeds: one seed anywhere, or two seeds inside cells
RawSeeds(shp) ==
    {<<r>> : r \in [point : SowPoints(shp), props : PropChoices]}
    \cup {<<r1, r2>> : r1 \in [point : InnerPoints(shp), props : PropChoices],
                       r2 \in [point : InnerPoints(shp), props : PropChoices]}

InitSow ==
    /\ shape \in SowShapes
    /\ masked \in GridMasks(shape)
    /\ driver = "sow"
    /\ pc = "call"
    /\ dms = <<>>
    /\ fnCall = <<>>
    /\ stalled = {}
    /\ reg = <<>>
    /\ call = <<>>
    /\ dmLog = <<>>
    /\ Idle

\* one call sow(mesh, rawseeds)
SowCall ==
    /\ driver = "sow"
    /\ pc = "call"
    /\ \E rawseeds \in RawSeeds(shape) :
          call' = [op |-> "sow", rawseeds |-> rawseeds, result |-> Sow(rawseeds, shape, masked)]
    /\ pc' = "done"
    /\ UNCHANGED <<shape, masked, seeds, dms, driver, estimate, committed, neighborhood, goal, misfit, goals, misfits, iteration, pos, onegrew, fnCall, dmLog, stalled, reg>>

\* one call sow_prisms(points, props, mesh) on a mesh without masked cells
SowPrismsCall ==
    /\ driver = "sow"
    /\ pc = "call"
    /\ masked = {}
    /\ \E n \in 1 .. MaxSeeds, props \in PropChoices :
       \E points \in [1 .. n -> InnerPoints(shape)] :
          call' = [op |-> "sow_prisms",
                   rawseeds |-> [t \in 1 .. n |-> [point |-> points[t], props |-> props]],
                   result |-> [error |-> "none", seeds |-> SowPrisms(points, props, shape)]]
    /\ pc' = "done"
    /\ UNCHANGED <<shape, masked, seeds, dms, driver, estimate, committed, neighborhood, goal, misfit, goals, misfits, iteration, pos, onegrew, fnCall, dmLog, stalled, reg>>

NextSow == SowCall \/ SowPrismsCall

SpecSow == InitSow /\ [][NextSow]_vars

\* C17: sow of one seed point returns, for a point within the bounds of the
\* mesh (the bounding faces included) that an unmasked cell holds, a seed
\* whose index is in [0, size) and is an unmasked cell that holds the point,
\* and raises an error, returning no seed, when the point is out of the
\* bounds or a cell that holds it is masked.
SeedResolution ==
    (call # <<>> /\ call.op = "sow" /\ Len(call.rawseeds) = 1) =>
        LET point == call.rawseeds[1].point
        IN  /\ call.result.error = "none" =>
                  /\ Len(call.result.seeds) = 1
                  /\ call.result.seeds[1].index \in CellsHolding(point, shape) \ masked
            /\ call.result.error # "none" =>
                  /\ call.result.seeds = <<>>
                  /\ ~InBounds(point, shape) \/ CellsHolding(point, shape) \cap masked # {}

\* the seeds t < u of the last call that lie in the same cell and have a
\* property name in common
Conflicts ==
    {tu \in (DOMAIN call.rawseeds) \X (DOMAIN call.rawseeds) :
        /\ tu[1] < tu[2]
        /\ CellsHolding(call.rawseeds[tu[1]].point, shape) = CellsHolding(call.rawseeds[tu[2]].point, shape)
        /\ (DOMAIN call.rawseeds[tu[1]].props) \cap (DOMAIN call.rawseeds[tu[2]].props) # {}}

\* C18: the construction of seeds from points that lie inside unmasked cells
\* raises an error when two of the seeds lie in the same cell and have a
\* property name in common, and otherwise returns every seed, two seeds of
\* one cell with disjoint property names included.
ConflictDetection ==
    (call # <<>> /\ \A t \in DOMAIN call.rawseeds :
                       /\ call.rawseeds[t].point \in InnerPoints(shape)
                       /\ CellsHolding(call.rawseeds[t].point, shape) \cap masked = {}) =>
        IF Conflicts # {}
        THEN call.result.error # "none"
        ELSE call.result.error = "none" /\ Len(call.result.seeds) = Len(call.rawseeds)

-----------------------------------------------------------------------------
(* harvest(dms, seeds) from its first line: the check of the kinds, the    *)
(* initialization of the seeds and of the data modules, and the solver.    *)

\* the kinds of seed: SeedPrism and another one
SeedKinds == {"prism", "polygon"}

\* a check of the kinds that lets every list through
MixedKindsNever(sds) == FALSE

\* kinds = [seed.kind for seed in seeds]; kinds.count(kinds[0]) != len(kinds)
MixedKinds(sds) ==
    LET kinds == [k \in DOMAIN sds |-> sds[k].kind]
    IN  Cardinality({k \in DOMAIN kinds : kinds[k] = kinds[1]}) # Len(kinds)

\* the seed lists given to harvest: prism seeds in different cells with the
\* same property names, some of them said to be of another kind
EntrySeedLists(shp) ==
    {sds \in UNION {[1 .. n -> [index : Cells(shp), props : PropChoices, kind : SeedKinds]] : n \in 1 .. MaxSeeds} :
        /\ \E a \in DOMAIN sds : sds[a].kind = "prism"
        /\ \A a, b \in DOMAIN sds : a # b => (sds[a].index # sds[b].index /\ DOMAIN sds[a].props = DOMAIN sds[b].props)}

\* the seeds and the data modules as their constructors leave them
InitEntry ==
    /\ shape = <<1, 1, MaxDim>>
    /\ masked \in GrowMasks
    /\ seeds \in EntrySeedLists(shape)
    /\ \E body \in Bodies(shape), types \in {{"density"}, PropNames} : dms = NewModules(types, body, 1, shape)
    /\ fnCall = <<>>
    /\ stalled = {}
    /\ reg = <<>>
    /\ call = <<>>
    /\ dmLog = <<>>
    /\ committed = SeedCommitted(seeds)
    /\ iteration = 0
    /\ pos = 1
    /\ onegrew = FALSE
    /\ driver = "harvest"
    /\ estimate = <<>>
    /\ neighborhood = [k \in DOMAIN seeds |-> <<>>]
    /\ goal = 0
    /\ misfit = 0
    /\ goals = <<>>
    /\ misfits = <<>>
    /\ pc = "kinds"

\* harvest, lines 1177-1179
HarvestKinds ==
    /\ pc = "kinds"
    /\ driver = "harvest"
    /\ pc' = IF MixedKinds(seeds) THEN "raised" ELSE "initialize"
    /\ UNCHANGED <<shape, masked, seeds, dms, driver, estimate, committed, neighborhood, goal, misfit, goals, misfits, iteration, pos, onegrew, fnCall, dmLog, stalled, reg, call>>

\* harvest, lines 1181-1182: seed.initialize(seeds) for the next seed
SeedInitialize ==
    /\ pc = "initialize"
    /\ driver = "harvest"
    /\ neighborhood' = [neighborhood EXCEPT ![pos] = PrismNeighbors(pos, seeds, shape, masked)[pos]]
    /\ call' = [op |-> "harvest", initialized |-> 1 .. pos]
    /\ IF pos < Len(seeds)
       THEN pos' = pos + 1 /\ pc' = pc
       ELSE pos' = 1 /\ pc' = "update"
    /\ UNCHANGED <<shape, masked, seeds, dms, driver, estimate, committed, goal, misfit, goals, misfits, iteration, onegrew, fnCall, dmLog, stalled, reg>>

\* harvest, lines 1183-1187 and _harvest_solver, lines 1102-1108: every data
\* module updated with every seed, and the first goal
ModulesUpdate ==
    /\ pc = "update"
    /\ driver = "harvest"
    /\ \E updated \in {UpdateSeeds(dms, seeds, shape)} :
       \E first \in {TotalMisfit(updated, [k \in DOMAIN updated |-> updated[k].predicted])} :
          /\ dms' = updated
          /\ goal' = first
          /\ misfit' = first
          /\ goals' = <<first>>
          /\ misfits' = <<first>>
    /\ pc' = "pass"
    /\ UNCHANGED <<shape, masked, seeds, driver, estimate, committed, neighborhood, iteration, pos, onegrew, fnCall, dmLog, stalled, reg, call>>

NextEntry == HarvestKinds \/ SeedInitialize \/ ModulesUpdate \/ HarvestTurn \/ HarvestMerge

SpecEntry == InitEntry /\ [][NextEntry]_vars

\* C19: when the seeds given to harvest are not all of the same kind, harvest
\* raises its error and no seed is ever initialized, no data module has its
\* predicted data changed, and no accretion is tried or made.
RejectsMixedKinds ==
    (\E a, b \in DOMAIN seeds : seeds[a].kind # seeds[b].kind) =>
        /\ pc \in {"kinds", "raised"}
        /\ call = <<>>
        /\ \A k \in DOMAIN seeds : neighborhood[k] = <<>>
        /\ \A d \in DOMAIN dms : dms[d].predicted = ZeroVec(shape) /\ dms[d].effect = <<>>
        /\ committed = SeedCommitted(seeds)
        /\ goals = <<>> /\ stalled = {} /\ iteration = 0

\* harvest raised its error for seeds of two kinds
RejectsMixedKindsWitness ==
    /\ pc = "raised"
    /\ Len(seeds) = 2
    /\ seeds[1].kind # seeds[2].kind

-----------------------------------------------------------------------------
(* DMPrism.__init__(data, xp, yp, zp, mesh, use_shape=False, norm) *)

\* the norm orders tried: one below 1, 1, 2, and those above up to MaxNorm
MaxNorm == 3

NormOrders == 0 .. MaxNorm

\* a constructor that takes any norm
NewDMPrismAnyNorm(data, norm, shp) ==
    [error |-> "none",
     dm |-> << [data |-> data, predicted |-> ZeroVec(shp), norm |-> norm, effect |-> <<>>, prop_type |-> "None",
                normOfData |-> IF norm = 1 THEN Norm1(data) ELSE SumSeq([q \in DOMAIN data |-> data[q] * data[q]])] >>]

\* DMPrism.__init__: the error raised, or the new module; weight is
\* 1/norm(data, norm), kept as norm(data, 1) or norm(data, 2)**2
NewDMPrism(data, norm, shp) ==
    IF norm \notin {1, 2}
    THEN [error |-> "ValueError", dm |-> <<>>]
    ELSE [error |-> "none",
          dm |-> << [data |-> data, predicted |-> ZeroVec(shp), norm |-> norm, effect |-> <<>>, prop_type |-> "None",
                     normOfData |-> IF norm = 1 THEN Norm1(data) ELSE SumSeq([q \in DOMAIN data |-> data[q] * data[q]])] >>]

InitNorm ==
    /\ shape \in GrowShapes
    /\ masked = {}
    /\ driver = "DMPrism.__init__"
    /\ pc = "call"
    /\ dms = <<>>
    /\ fnCall = <<>>
    /\ stalled = {}
    /\ reg = <<>>
    /\ call = <<>>
    /\ dmLog = <<>>
    /\ Idle

\* one call DMPrism(data, xp, yp, zp, mesh, False, norm)
DMPrismCall ==
    /\ driver = "DMPrism.__init__"
    /\ pc = "call"
    /\ \E body \in Bodies(shape), amp \in 1 .. MaxAmp, norm \in NormOrders :
       \E made \in {NewDMPrism(ObservedData(body, amp, shape), norm, shape)} :
          /\ call' = [op |-> "DMPrism.__init__", data |-> ObservedData(body, amp, shape), norm |-> norm, error |-> made.error]
          /\ dms' = made.dm
    /\ pc' = "done"
    /\ UNCHANGED <<shape, masked, seeds, driver, estimate, committed, neighborhood, goal, misfit, goals, misfits, iteration, pos, onegrew, fnCall, dmLog, stalled, reg>>

NextNorm == DMPrismCall

SpecNorm == InitNorm /\ [][NextNorm]_vars

\* C20: the construction of a data module with a norm order that is neither
\* 1 nor 2 raises an error and makes no data module; with norm order 1 or 2
\* it raises nothing and makes the module, with that norm, the given data
\* and zero predicted data.
NormOrderChecked ==
    call # <<>> =>
        IF call.norm = 1 \/ call.norm = 2
        THEN /\ call.error = "none"
             /\ Len(dms) = 1
             /\ dms[1].norm = call.norm /\ dms[1].data = call.data /\ dms[1].predicted = ZeroVec(shape)
        ELSE call.error # "none" /\ dms = <<>>

\* a constructor call with a norm order above 2 has raised its error
NormOrderCheckedWitness == call # <<>> /\ call.norm > 2 /\ call.error = "ValueError" /\ dms = <<>>

-----------------------------------------------------------------------------
(* Further properties of the runs of grow and of harvest *)

\* the misfit the chooser of the turn compares the candidates with
CurrentMisfit == IF driver = "harvest" THEN misfit ELSE goal

\* C21: a growth step that starts with the current total misfit equal to 0
\* accepts no candidate: the step declines and the run goes on to its normal
\* end with the estimate it had.
ZeroMisfitDeclines ==
    [][(pc = "pass" /\ CurrentMisfit = 0) =>
          /\ Accretions' = Accretions
          /\ committed' = committed
          /\ pc' \in {"pass", "merge", "done"}]_vars

\* the predicted data of a module when the seeds alone are in the estimate:
\* the effects of the seeds that carry the property of the module
SeedOnlyPredicted(dm) ==
    Tuple([q \in Points(shape) |->
        SumSeq([k \in DOMAIN seeds |->
            IF dm.prop_type \in DOMAIN seeds[k].props
            THEN seeds[k].props[dm.prop_type] * Kernel(seeds[k].index, q, shape)
            ELSE 0])])

\* C22: no objective value exists and no chooser has been consulted before
\* every seed is folded into every data module; the first objective value is
\* the sum over the data modules of the misfit of the predicted data of the
\* seeds alone, and until the first accretion the modules hold those data.
InitialObjective ==
    /\ pc \in {"kinds", "raised", "initialize", "update"} =>
          /\ goals = <<>> /\ misfits = <<>>
          /\ stalled = {} /\ iteration = 0
          /\ committed = SeedCommitted(seeds)
    /\ goals # <<>> =>
          /\ goals[1] = TotalMisfit(dms, [k \in DOMAIN dms |-> SeedOnlyPredicted(dms[k])])
          /\ misfits[1] = goals[1]
          /\ Accretions = 0 => \A k \in DOMAIN dms : dms[k].predicted = SeedOnlyPredicted(dms[k])

\* harvest has computed its first objective for two seeds, and no seed has
\* had a turn yet
InitialObjectiveWitness ==
    /\ driver = "harvest"
    /\ pc = "pass"
    /\ call # <<>>
    /\ Len(seeds) = 2
    /\ Len(goals) = 1
    /\ goals[1] > 0
    /\ iteration = 0 /\ pos = 1

\* the cells the frontier of seed k is to hold when the first changeset is
\* made: the unmasked face neighbours of its origin that are not the origin
\* of a seed and not in the frontier of an earlier seed, for seeds that
\* share a property name with seed k
FirstClaim(k) ==
    {c \in Cells(shape) \ masked :
        /\ FaceAdjacent(c, seeds[k].index, shape)
        /\ ~ \E j \in DOMAIN seeds : SharesProperty(j, k) /\ seeds[j].index = c
        /\ ~ \E j \in 1 .. (k - 1) : SharesProperty(j, k) /\ c \in Range(neighborhood[j])}

\* C23: when grow has initialized the frontiers, the frontier of each seed
\* holds, once each, exactly the unmasked face neighbours of its origin that
\* are not a seed origin and not in the frontier of an earlier seed of the
\* list (for seeds with a common property name), so a cell next to the
\* origins of two such seeds is in the frontier of the earlier one only.
FirstClaimWins ==
    (driver = "grow" /\ iteration = 0 /\ pos = 1 /\ Accretions = 0 /\ stalled = {}) =>
        \A k \in DOMAIN seeds :
            /\ Range(neighborhood[k]) = FirstClaim(k)
            /\ Cardinality(Range(neighborhood[k])) = Len(neighborhood[k])

\* the predicted data of the modules after cell c with the props of seed k
\* is added to what they hold
PredictedWith(c, k) ==
    [d \in DOMAIN dms |->
        IF dms[d].prop_type \in DOMAIN seeds[k].props
        THEN [q \in Points(shape) |-> dms[d].predicted[q] + seeds[k].props[dms[d].prop_type] * Kernel(c, q, shape)]
        ELSE dms[d].predicted]

\* C24: in a pass the seeds have their turns one after the other in the order
\* of the list, one turn each; a turn commits no cell or one cell of the
\* frontier of its seed, and when it commits, the committed set, the
\* estimate, the predicted data of the modules, the frontier and the current
\* objective are all updated in that turn, before the turn of the next seed.
PassOrdering ==
    [][pc = "pass" =>
          /\ IF pos < Len(seeds)
             THEN pos' = pos + 1 /\ iteration' = iteration
             ELSE pos' = 1 /\ iteration' = iteration + 1
          /\ \A k \in (DOMAIN seeds) \ {pos} : committed'[k] = committed[k]
          /\ \/ /\ Accretions' = Accretions
                /\ committed' = committed /\ neighborhood' = neighborhood /\ estimate' = estimate
                /\ goal' = goal /\ misfit' = misfit
                /\ \A d \in DOMAIN dms : dms'[d].predicted = dms[d].predicted
             \/ \E j \in DOMAIN neighborhood[pos] :
                   /\ Accretions' = Accretions + 1
                   /\ \A p \in DOMAIN seeds[pos].props :
                          committed'[pos][p] = Append(committed[pos][p], <<neighborhood[pos][j], seeds[pos].props[p]>>)
                   /\ neighborhood[pos][j] \notin Range(neighborhood'[pos])
                   /\ \A d \in DOMAIN dms : dms'[d].predicted = Tuple(PredictedWith(neighborhood[pos][j], pos)[d])
                   /\ goal' = goals'[Len(goals')] /\ misfit' = misfits'[Len(misfits')]
                   /\ driver = "grow" => \A p \in DOMAIN seeds[pos].props :
                                             estimate'[p][neighborhood[pos][j]] = seeds[pos].props[p]]_vars

\* the second seed of the list has committed a cell in a pass after the first
\* seed did, and the next pass has begun
PassOrderingWitness ==
    /\ pc = "pass"
    /\ Len(seeds) = 2
    /\ pos = 1 /\ iteration = 1
    /\ Accreted(1) = 1 /\ Accreted(2) = 1

\* C25: after an accretion accepted by the jury with a regularizer, the goal
\* that grow records and reports is the goal function after the accretion:
\* the misfit of the accepted candidate plus the running total of the
\* regularizer, the penalty of the accepted candidate included (both sides
\* multiplied by MuDen).
ReportedGoalIsObjective ==
    (driver = "grow regularized" /\ call # <<>> /\ call.result # 0) =>
        /\ goal = goals[Len(goals)]
        /\ goal * MuDen = call.ms[call.result] * MuDen + reg.reg

\* the accretions committed by the seeds, counted from their committed lists
CommittedAccretions == SumSeq([k \in DOMAIN seeds |-> Accreted(k)])

\* C26: the goal history and the misfit history (the changesets that grow
\* yields) hold the initial record and one record for each accretion that
\* some seed committed, and none for a turn that was declined; the fold of
\* the estimates that ends _harvest_solver adds no record.
HistoryLength ==
    /\ []((driver \in {"grow", "harvest"} /\ goals # <<>> /\ (driver = "harvest" => pc # "done")) =>
            /\ Len(goals) = 1 + CommittedAccretions
            /\ Len(misfits) = Len(goals))
    /\ [][(pc = "merge" => goals' = goals /\ misfits' = misfits)
          /\ (CommittedAccretions' = CommittedAccretions /\ pc = "pass" => goals' = goals /\ misfits' = misfits)]_vars

\* a run has ended after two accretions and a declined turn
HistoryLengthWitness ==
    /\ pc = "done"
    /\ stalled # {}
    /\ driver = "grow"
    /\ Len(goals) = 3
    /\ CommittedAccretions = 2

\* the seeds with property p whose committed list com[k][p] holds cell c
Committers(com, p, c) == {k \in DOMAIN seeds : p \in DOMAIN com[k] /\ \E t \in DOMAIN com[k][p] : com[k][p][t][1] = c}

\* est holds, for each property, the value of the committing seed at the
\* cells of the committed lists com and 0 at every other cell
EstimateOf(est, com) ==
    /\ DOMAIN est = SeedProps(seeds)
    /\ \A p \in DOMAIN est : \A c \in Cells(shape) :
          IF Committers(com, p, c) = {}
          THEN est[p][c] = 0
          ELSE /\ est[p][c] # 0
               /\ \A k \in Committers(com, p, c) : est[p][c] = seeds[k].props[p]

TestdriveFrame ==
    [][(driver = "DMPrism" /\ Len(dmLog') = Len(dmLog) + 1) =>
          /\ dms'[1].predicted = dms[1].predicted
          /\ dms'[1].data = dms[1].data
          /\ dms'[1].prop_type = dms[1].prop_type
          /\ dms[1].prop_type \notin DOMAIN dmLog'[Len(dmLog')].elem.props =>
                /\ dmLog'[Len(dmLog')].ret = Norm1(VSub(dms[1].data, dms[1].predicted))
                /\ dms'[1].effect = dms[1].effect]_vars

\* after an update that changed the predicted data, the module was driven
\* with an element without its property and with an element with it
TestdriveFrameWitness ==
    /\ driver = "DMPrism"
    /\ iteration >= 1
    /\ dms[1].predicted # ZeroVec(shape)
    /\ \E s \in DOMAIN dmLog : dms[1].prop_type \notin DOMAIN dmLog[s].elem.props
    /\ \E t \in DOMAIN dmLog : dms[1].prop_type \in DOMAIN dmLog[t].elem.props /\ ~dmLog[t].cached

\* the pairs <<cell, value>> of property p committed by the seeds, in the
\* order of the seeds; nothing for a seed without the property
RECURSIVE CommittedPairs(_, _)
CommittedPairs(p, l) ==
    IF l = 0 THEN <<>>
    ELSE IF p \in DOMAIN committed[l] THEN CommittedPairs(p, l - 1) \o committed[l][p] ELSE CommittedPairs(p, l - 1)

\* the predicted datum at point q computed from scratch: the sum of the
\* effects of the pairs <<cell, value>>
Recomputed(pairs, q) == SumSeq([t \in DOMAIN pairs |-> pairs[t][2] * Kernel(pairs[t][1], q, shape)])

\* C29: in every state of the growth loops the predicted data of each data
\* module, updated one commit at a time and with testdrive calls in between,
\* are the sum of the effects of the cells committed so far by seeds with
\* the property of the module (seed cells included), each cell once; the
\* cells of seeds without the property add nothing.
IncrementalPredicted ==
    (driver \in {"grow", "harvest"} /\ pc \in {"pass", "merge"} \cup (IF driver = "grow" THEN {"done"} ELSE {})) =>
        \A d \in DOMAIN dms :
            \E pairs \in {CommittedPairs(dms[d].prop_type, Len(seeds))} :
                /\ \A q \in Points(shape) : dms[d].predicted[q] = Recomputed(pairs, q)
                /\ \A s, t \in DOMAIN pairs : s # t => pairs[s][1] # pairs[t][1]

\* a seed without the property of some module has accreted a cell, and a seed
\* with the property of that module has accreted a cell too
IncrementalPredictedWitness ==
    /\ driver \in {"grow", "harvest"}
    /\ pc \in {"pass", "merge"}
    /\ \E d \in DOMAIN dms :
          /\ \E k \in DOMAIN seeds : dms[d].prop_type \notin DOMAIN seeds[k].props /\ Accreted(k) >= 1
          /\ \E k \in DOMAIN seeds : dms[d].prop_type \in DOMAIN seeds[k].props /\ Accreted(k) >= 1

-----------------------------------------------------------------------------
(* Properties of the frontiers, the caches and the fold of the estimates *)

\* the free cells next to a committed cell: unmasked, committed by no seed,
\* and face-adjacent to a cell that some seed committed
Reachable == {c \in Unmasked \ AllCommitted : \E b \in AllCommitted : FaceAdjacent(c, b, shape)}

\* C31: after the frontiers are set up and after every accretion of grow,
\* every unmasked cell that no seed committed and that is face-adjacent to a
\* committed cell of some seed is in the frontier of some seed.
FrontierComplete ==
    driver = "grow" =>
        \A c \in Reachable : \E k \in DOMAIN seeds : c \in Range(neighborhood[k])

\* C32: the committed set of each seed starts with the cell of the seed, and
\* every cell a seed accreted is a face neighbour of a cell that the same seed
\* committed before it, so the set is face-connected.
ConnectedGrowth ==
    driver = "grow" =>
        \A k \in DOMAIN seeds : \A p \in DOMAIN committed[k] :
            /\ committed[k][p][1][1] = seeds[k].index
            /\ \A t \in 2 .. Len(committed[k][p]) :
                  \E u \in 1 .. (t - 1) : FaceAdjacent(committed[k][p][t][1], committed[k][p][u][1], shape)

\* a seed has accreted a cell that is not a neighbour of its own cell
ConnectedGrowthWitness ==
    /\ driver = "grow"
    /\ \E k \in DOMAIN seeds : \E c \in CommittedCells(k) :
          c # seeds[k].index /\ ~FaceAdjacent(c, seeds[k].index, shape)

-----------------------------------------------------------------------------
(* grow under its three juries: standard_jury, standard_jury with the      *)
(* regularizer, and shape_jury                                              *)

InitJuries == Init \/ InitJury \/ InitShape

NextJuries == GrowTurn \/ JuryTurn \/ ShapeTurn

SpecJuries == InitJuries /\ [][NextJuries]_vars

\* the jury returns None in the turn that is taken
JuryDeclines ==
    /\ pc = "pass"
    /\ IF driver = "grow"
       THEN StandardJury(neighborhood[pos], seeds[pos].props, dms, goal, shape) = NoChoice
       ELSE call'.result = 0

InFrontiers == UNION {Range(neighborhood[k]) : k \in DOMAIN seeds}

\* C34: in a run of harvest the cache of effects of a data module never
\* holds a committed cell, holds only cells that are in the frontier of some
\* seed, and loses an entry only when its cell is committed; an effect is
\* computed only for a cell that is neither cached nor committed, so it is
\* computed at most once for each module and cell.
EffectCacheDiscipline ==
    /\ [](driver = "harvest" =>
            \A d \in DOMAIN dms :
                /\ (DOMAIN dms[d].effect) \cap AllCommitted = {}
                /\ (DOMAIN dms[d].effect) \subseteq InFrontiers)
    /\ [][driver = "harvest" =>
            \A d \in DOMAIN dms :
                /\ \A c \in (DOMAIN dms[d].effect) \ (DOMAIN dms'[d].effect) : c \in AllCommitted' \ AllCommitted
                /\ \A c \in (DOMAIN dms'[d].effect) \ (DOMAIN dms[d].effect) : c \notin AllCommitted']_vars

\* after an accretion a module still holds the effect of a candidate that
\* was driven and not taken
EffectCacheDisciplineWitness ==
    /\ driver = "harvest"
    /\ pc = "pass"
    /\ Len(goals) >= 2
    /\ \E d \in DOMAIN dms : DOMAIN dms[d].effect # {}

\* MuDen times the penalties of the cells the seeds accreted, each from the
\* distance of the cell to the cell of the seed that accreted it
AccretedPenalties ==
    SumSeq([k \in DOMAIN seeds |->
        SumSeq([t \in 1 .. Accreted(k) |->
            RegTerm(Dist2(committed[k][CHOOSE p \in DOMAIN committed[k] : TRUE][t + 1][1], seeds[k].index, shape))])])

\* C35: under grow with the regularizer the running total of the regularizer
\* is the sum of the penalties of the accreted cells, each measured from the
\* cell of the seed that accreted it; its history starts with 0, has one
\* entry for each accretion, ends with the total and never decreases; and no
\* committed cell of a seed is left in the cache of distances by its commit.
RegularizerBookkeeping ==
    /\ [](driver = "grow regularized" =>
            /\ reg.reg = AccretedPenalties
            /\ Len(reg.timeline) = 1 + CommittedAccretions
            /\ reg.timeline[1] = 0
            /\ reg.timeline[Len(reg.timeline)] = reg.reg
            /\ \A t \in 1 .. (Len(reg.timeline) - 1) : reg.timeline[t] <= reg.timeline[t + 1])
    /\ [][(driver = "grow regularized" /\ call'.result # 0) =>
            call'.neighbors[call'.result] \notin DOMAIN reg'.dists]_vars

\* C36: on every grid shape, those with a dimension of 1 included, and for
\* every cell, find_neighbors in face mode and in full mode returns only
\* indices of cells of the grid, never the cell itself, and no index twice.
NeighborsWellFormed ==
    fnCall # <<>> =>
        /\ \A t \in DOMAIN fnCall.result : fnCall.result[t] \in 0 .. (MeshSize(shape) - 1)
        /\ fnCall.n \notin Range(fnCall.result)
        /\ NoDuplicates(fnCall.result)

\* find_neighbors was called in full mode for a cell of a grid with a
\* dimension of 1 and returned at least two cells
NeighborsWellFormedWitness ==
    /\ fnCall # <<>>
    /\ fnCall.full
    /\ \E x \in 1 .. 3 : shape[x] = 1
    /\ Len(fnCall.result) >= 2

-----------------------------------------------------------------------------
(* sow_prisms(points, props, mesh) with a list of values per property:     *)
(* seed i gets sprops[p] = props[p][i].  Several points of the list can    *)
(* lie in one cell.                                                        *)

\* a sow_prisms that keeps every seed
RECURSIVE SowPrismsEachKeepAll(_, _, _)
SowPrismsEachKeepAll(points, props, shp) ==
    IF points = <<>> THEN <<>>
    ELSE Append(SowPrismsEachKeepAll(SubSeq(points, 1, Len(points) - 1), props, shp),
                [index |-> GetIndex(points[Len(points)], shp), props |-> [p \in DOMAIN props |-> props[p][Len(points)]]])

\* sow_prisms, lines 643-654: the seeds after the points of the list
RECURSIVE SowPrismsEach(_, _, _)
SowPrismsEach(points, props, shp) ==
    IF points = <<>> THEN <<>>
    ELSE LET before == SowPrismsEach(SubSeq(points, 1, Len(points) - 1), props, shp)
             index  == GetIndex(points[Len(points)], shp)
         IN  IF \E t \in DOMAIN before : before[t].index = index
             THEN before
             ELSE Append(before, [index |-> index, props |-> [p \in DOMAIN props |-> props[p][Len(points)]]])

\* the longest list of points
MaxPoints == 3

\* points in the lower row of cells of the mesh of SowShapes, inside a cell
\* or on the face between two cells
RowPoints(shp) == {<<x, 1, 1>> : x \in 0 .. (Nx(shp) * CellSide)} \cup {<<x, 3, 1>> : x \in {1}}

InitSowPrisms ==
    /\ shape \in SowShapes
    /\ masked = {}
    /\ driver = "sow_prisms"
    /\ pc = "call"
    /\ dms = <<>>
    /\ fnCall = <<>>
    /\ stalled = {}
    /\ reg = <<>>
    /\ call = <<>>
    /\ dmLog = <<>>
    /\ Idle

\* one call sow_prisms(points, props, mesh)
SowPrismsEachCall ==
    /\ driver = "sow_prisms"
    /\ pc = "call"
    /\ \E n \in 1 .. MaxPoints :
       \E points \in [1 .. n -> RowPoints(shape)], values \in [1 .. n -> 1 .. MaxAmp] :
          call' = [op |-> "sow_prisms", points |-> points, values |-> values,
                   result |-> SowPrismsEach(points, [p \in {"density"} |-> values], shape)]
    /\ pc' = "done"
    /\ UNCHANGED <<shape, masked, seeds, dms, driver, estimate, committed, neighborhood, goal, misfit, goals, misfits, iteration, pos, onegrew, fnCall, dmLog, stalled, reg>>

NextSowPrisms == SowPrismsEachCall

SpecSowPrisms == InitSowPrisms /\ [][NextSowPrisms]_vars

\* the points of the last call that no earlier point of the list shares its
\* cell with
FirstInCell == {t \in DOMAIN call.points : \A u \in 1 .. (t - 1) : GetIndex(call.points[u], shape) # GetIndex(call.points[t], shape)}

\* C37: the seeds sow_prisms returns have pairwise distinct cells: of the
\* points that lie in one cell the first of the list gives the seed, with its
\* own property values, the later ones are ignored, and the seeds are in the
\* order of their points.
DistinctPrismSeeds ==
    (driver = "sow_prisms" /\ call # <<>>) =>
        /\ \A a, b \in DOMAIN call.result : a # b => call.result[a].index # call.result[b].index
        /\ Len(call.result) = Cardinality(FirstInCell)
        /\ \A t \in FirstInCell :
              \E r \in {Cardinality({u \in FirstInCell : u <= t})} :
                  /\ call.result[r].index = GetIndex(call.points[t], shape)
                  /\ call.result[r].props = [p \in {"density"} |-> call.values[t]]

\* three points, the first two different and in one cell with different
\* values, the third in another cell
DistinctPrismSeedsWitness ==
    /\ driver = "sow_prisms" /\ call # <<>>
    /\ Len(call.points) = 3
    /\ call.points[1] # call.points[2]
    /\ GetIndex(call.points[1], shape) = GetIndex(call.points[2], shape)
    /\ call.values[1] # call.values[2]
    /\ GetIndex(call.points[3], shape) # GetIndex(call.points[1], shape)
    /\ Len(call.result) = 2

\* C38: the fold of the estimates of the seeds at the end of harvest leaves
\* the committed list of every seed as it was, and the estimate of each
\* property holds exactly the pairs of cell and value of the seeds that
\* carry the property.
MergeLeavesSeeds ==
    [][(driver = "harvest" /\ pc = "merge") =>
          /\ committed' = committed
          /\ EstimateOf(estimate', committed)]_vars

====
